---------------------------- MODULE Spec2Model ----------------------------
(***************************************************************************)
(* Model of the confidence, interaction and hallucination evaluation core  *)
(* of the MEDI backend (backend/modules/confidence_scorer.py,              *)
(* drug_interaction_checker.py, evaluation.py, medical_api.py).            *)
(*                                                                         *)
(* Conventions                                                             *)
(*  - A Python text that the code inspects character by character is a     *)
(*    sequence of one-character strings; a text the code only passes       *)
(*    around (a drug name, a class name) is a TLA+ string, "" being the    *)
(*    empty (falsy) string.                                                *)
(*  - An optional Python value is a record [none |-> BOOLEAN, ...].        *)
(*  - An HTTP exchange is a record: net = "error" stands for requests.get  *)
(*    raising (connection failure, timeout), otherwise status and body     *)
(*    describe the response.                                               *)
(*  - The text an LLM returns is a sequence of tokens: a code fence, a     *)
(*    language tag, a newline, a blank, or one body token that is either   *)
(*    a JSON document or text that is not JSON.                            *)
(*  - A function that may raise returns [raised |-> BOOLEAN, ...].         *)
(***************************************************************************)
EXTENDS Integers, Sequences, FiniteSets, TLC

VARIABLES
    entry,   \* the public entry point that was called, "none" before the call
    args,    \* the arguments of that call
    env,     \* what the collaborators (reference APIs, LLM) answered during it
    ret,     \* [raised, report]: what the call gave back to its caller
    calls,   \* how many times each collaborator was invoked during the call
    SESSION_STORE,  \* session_store.SESSION_STORE: session id -> entry
    lookups, \* per session and drug name, the RxNorm and DailyMed lookups made
    served   \* how many requests the routes have served

vars == <<entry, args, env, ret, calls, SESSION_STORE, lookups, served>>

\* what a call of a function of the core leaves alone
routeVars == <<SESSION_STORE, lookups, served>>

-----------------------------------------------------------------------------
(* Bounds of the model                                                     *)

\* longest medication list passed to check_interactions
MaxMeds == 3
\* longest medication list of a prescription passed to compute_confidence
MaxScoredMeds == 3
\* most interactions in one LLM answer
MaxInteractions == 2
\* most hallucination flags in one LLM answer
MaxFlags == 2

-----------------------------------------------------------------------------
(* Python helpers                                                          *)

Min(a, b) == IF a <= b THEN a ELSE b

RECURSIVE SetMin(_)
SetMin(S) ==
    LET x == CHOOSE y \in S : TRUE
    IN  IF S = {x} THEN x ELSE Min(x, SetMin(S \ {x}))

Range(s) == {s[i] : i \in 1..Len(s)}

\* all sequences over S of length at most n
SeqsUpTo(S, n) == UNION {[1..k -> S] : k \in 0..n}

NoneStr == [none |-> TRUE, text |-> <<>>]

Str(chars) == [none |-> FALSE, text |-> chars]

Whitespace == {" ", "\n", "\t"}

UpperCase == <<"A","B","C","D","E","F","G","H","I","J","K","L","M",
               "N","O","P","Q","R","S","T","U","V","W","X","Y","Z">>

LowerCase == <<"a","b","c","d","e","f","g","h","i","j","k","l","m",
               "n","o","p","q","r","s","t","u","v","w","x","y","z">>

IsUpperChar(c) == \E i \in 1..26 : UpperCase[i] = c

IsLowerChar(c) == \E i \in 1..26 : LowerCase[i] = c

IsAlpha(c) == IsUpperChar(c) \/ IsLowerChar(c)

LowerChar(c) ==
    IF IsUpperChar(c)
    THEN LowerCase[CHOOSE i \in 1..26 : UpperCase[i] = c]
    ELSE c

\* str.lower()
Lower(s) == [i \in 1..Len(s) |-> LowerChar(s[i])]

\* str.isupper() of a token of letters: at least one cased character and
\* no lower-case one
IsUpper(s) ==
    /\ \E i \in 1..Len(s) : IsUpperChar(s[i])
    /\ \A i \in 1..Len(s) : ~IsLowerChar(s[i])

RECURSIVE LStrip(_)
LStrip(s) ==
    IF s # <<>> /\ Head(s) \in Whitespace THEN LStrip(Tail(s)) ELSE s

RECURSIVE RStrip(_)
RStrip(s) ==
    IF s # <<>> /\ s[Len(s)] \in Whitespace
    THEN RStrip(SubSeq(s, 1, Len(s) - 1))
    ELSE s

\* str.strip()
Strip(s) == RStrip(LStrip(s))

\* re.findall(r'[A-Za-z]+', text): the maximal runs of letters, in order
RECURSIVE FindAllAlpha(_, _)
FindAllAlpha(s, cur) ==
    IF s = <<>>
    THEN IF cur = <<>> THEN <<>> ELSE <<cur>>
    ELSE IF IsAlpha(Head(s))
         THEN FindAllAlpha(Tail(s), Append(cur, Head(s)))
         ELSE (IF cur = <<>> THEN <<>> ELSE <<cur>>)
              \o FindAllAlpha(Tail(s), <<>>)

-----------------------------------------------------------------------------
(* medical_api.py: the four reference lookups.  Each takes the drug name   *)
(* and the HTTP exchange its requests.get call runs into.                  *)

NoId == [none |-> TRUE, id |-> ""]

SomeId(i) == [none |-> FALSE, id |-> i]

NoInfo == [none |-> TRUE, title |-> "", setid |-> "", published_date |-> ""]

SomeInfo(spl) ==
    [none |-> FALSE, title |-> spl.title, setid |-> spl.setid,
     published_date |-> spl.published_date]

\* fetch_rxnorm_id: no try/except and no timeout; body is
\* [json, hasIdGroup, hasRxnormId, rxnormId]
fetch_rxnorm_id(drug_name, r) ==
    IF r.net = "error" THEN [raised |-> TRUE, value |-> NoId]
    ELSE IF r.status # 200 THEN [raised |-> FALSE, value |-> NoId]
    ELSE IF ~r.body.json THEN [raised |-> TRUE, value |-> NoId]
    ELSE IF r.body.hasIdGroup /\ r.body.hasRxnormId
         THEN IF r.body.rxnormId = <<>>
              THEN [raised |-> TRUE, value |-> NoId]
              ELSE [raised |-> FALSE, value |-> SomeId(r.body.rxnormId[1])]
         ELSE [raised |-> FALSE, value |-> NoId]

\* fetch_dailymed_summary: no try/except and no timeout; body is
\* [json, hasData, data]
fetch_dailymed_summary(drug_name, r) ==
    IF r.net = "error" THEN [raised |-> TRUE, value |-> NoInfo]
    ELSE IF r.status # 200 THEN [raised |-> FALSE, value |-> NoInfo]
    ELSE IF ~r.body.json THEN [raised |-> TRUE, value |-> NoInfo]
    ELSE IF ~r.body.hasData \/ Len(r.body.data) = 0
         THEN [raised |-> FALSE, value |-> NoInfo]
         ELSE [raised |-> FALSE, value |-> SomeInfo(r.body.data[1])]

\* the loop of fetch_drug_classes: class names in order, a missing
\* className ("") skipped, each name once
RECURSIVE CollectClasses(_, _)
CollectClasses(infos, classes) ==
    IF infos = <<>> THEN classes
    ELSE CollectClasses(Tail(infos),
            IF Head(infos) # "" /\ Head(infos) \notin Range(classes)
            THEN Append(classes, Head(infos))
            ELSE classes)

\* fetch_drug_classes: the whole body is inside try/except Exception;
\* body is [json, wellFormed, infos]
fetch_drug_classes(drug_name, r) ==
    IF r.net = "error" THEN <<>>
    ELSE IF r.status # 200 THEN <<>>
    ELSE IF ~r.body.json THEN <<>>
    ELSE IF ~r.body.wellFormed THEN <<>>
    ELSE CollectClasses(r.body.infos, <<>>)

\* str.lower() of a drug name (names are atomic in the model)
NameLower(n) ==
    CASE n \in {"Warfarin", "WARFARIN"} -> "warfarin"
      [] n \in {"Aspirin", "ASPIRIN"} -> "aspirin"
      [] n = "Ibuprofen" -> "ibuprofen"
      [] n = "Heparin" -> "heparin"
      [] OTHER -> n

\* the loops of fetch_openfda_interactions over the reported products
RECURSIVE CollectSignals(_, _, _)
CollectSignals(products, drug_name, interactions) ==
    IF products = <<>> THEN interactions
    ELSE CollectSignals(Tail(products), drug_name,
            IF /\ Head(products) # ""
               /\ NameLower(Head(products)) # NameLower(drug_name)
               /\ Head(products) \notin Range(interactions)
            THEN Append(interactions, Head(products))
            ELSE interactions)

\* fetch_openfda_interactions: the whole body is inside try/except
\* Exception; body is [json, wellFormed, products]
fetch_openfda_interactions(drug_name, r) ==
    IF r.net = "error" THEN <<>>
    ELSE IF r.status # 200 THEN <<>>
    ELSE IF ~r.body.json THEN <<>>
    ELSE IF ~r.body.wellFormed THEN <<>>
    ELSE CollectSignals(r.body.products, drug_name, <<>>)

-----------------------------------------------------------------------------
(* confidence_scorer.py                                                    *)

KNOWN_ABBREVIATIONS == {
    <<"m","b","c">>, <<"c","a","d">>, <<"d","m">>, <<"h","t","n">>,
    <<"c","k","d">>, <<"c","o","p","d">>, <<"c","h","f">>, <<"d","v","t">>,
    <<"p","e">>, <<"u","t","i">>, <<"a","c","s">>, <<"m","i">>,
    <<"c","v","a">>, <<"t","i","a">>, <<"g","e","r","d">>, <<"i","b","s">>,
    <<"r","a">>, <<"o","a">>, <<"s","l","e">>, <<"m","s">>,
    <<"t","b">>, <<"h","i","v">>, <<"a","i","d","s">>, <<"b","p","h">>,
    <<"a","f","i","b">>, <<"p","v","d">>, <<"p","a","d">>, <<"a","r","d","s">>,
    <<"i","l","d">>, <<"n","s","c","l","c">>, <<"s","c","l","c">>, <<"a","m","l">>,
    <<"a","l","l">>, <<"c","m","l">>, <<"c","l","l">>, <<"d","l","b","c","l">>,
    <<"n","h","l">>, <<"h","l">> }

CONFIDENCE_LEVELS == <<"Low", "Medium", "High">>

\* _score_diagnosis with the explicit-text threshold one character lower
_score_diagnosis_HighFromFive(diagnosis) ==
    IF diagnosis.none \/ diagnosis.text = <<>> \/ Strip(diagnosis.text) = <<>>
    THEN [level |-> "Low", reason |-> "No diagnosis found in prescription"]
    ELSE
      LET text == Strip(diagnosis.text)
          tokens == FindAllAlpha(text, <<>>)
          is_abbreviation ==
              /\ Len(tokens) <= 2
              /\ \A i \in 1..Len(tokens) :
                    IsUpper(tokens[i]) \/ Lower(tokens[i]) \in KNOWN_ABBREVIATIONS
      IN  IF is_abbreviation
          THEN [level |-> "Medium", reason |-> "Abbreviation detected"]
          ELSE IF Len(text) >= 5
               THEN [level |-> "High", reason |-> "Full explicit diagnosis text"]
               ELSE [level |-> "Medium", reason |-> "Short diagnosis text"]

\* _score_diagnosis; diagnosis is an optional text
_score_diagnosis(diagnosis) ==
    IF diagnosis.none \/ diagnosis.text = <<>> \/ Strip(diagnosis.text) = <<>>
    THEN [level |-> "Low", reason |-> "No diagnosis found in prescription"]
    ELSE
      LET text == Strip(diagnosis.text)
          tokens == FindAllAlpha(text, <<>>)
          is_abbreviation ==
              /\ Len(tokens) <= 2
              /\ \A i \in 1..Len(tokens) :
                    IsUpper(tokens[i]) \/ Lower(tokens[i]) \in KNOWN_ABBREVIATIONS
      IN  IF is_abbreviation
          THEN [level |-> "Medium", reason |-> "Abbreviation detected"]
          ELSE IF Len(text) > 5
               THEN [level |-> "High", reason |-> "Full explicit diagnosis text"]
               ELSE [level |-> "Medium", reason |-> "Short diagnosis text"]

\* truthiness of an RxNorm id (None and "" are falsy)
RxTruthy(rx_id) == ~rx_id.none /\ rx_id.id # ""

\* truthiness of a DailyMed summary (a three-key dict is truthy)
DmTruthy(dailymed) == ~dailymed.none

\* the level chosen at confidence_scorer.py lines 106-114
NormalizationLevel(rx_id, dailymed) ==
    IF RxTruthy(rx_id) /\ DmTruthy(dailymed) THEN "High"
    ELSE IF RxTruthy(rx_id) \/ DmTruthy(dailymed) THEN "Medium"
    ELSE "Low"

NormalizationReason(rx_id, dailymed) ==
    IF RxTruthy(rx_id) /\ DmTruthy(dailymed) THEN "Matched in RxNorm and DailyMed"
    ELSE IF RxTruthy(rx_id) /\ ~DmTruthy(dailymed)
         THEN "Partial match (RxNorm: yes, DailyMed: no)"
    ELSE IF DmTruthy(dailymed)
         THEN "Partial match (RxNorm: no, DailyMed: yes)"
    ELSE "No match in RxNorm or DailyMed"

\* the loop of _score_medications from medication i on; rx[i] and dm[i] are
\* the exchanges the two lookups of medication i run into.  A lookup that
\* raises ends the loop: nothing in _score_medications catches it.
RECURSIVE ScoreFrom(_, _, _, _, _)
ScoreFrom(medications, rx, dm, i, acc) ==
    IF i > Len(medications) THEN acc
    ELSE
      LET name == medications[i].name
          rxr == fetch_rxnorm_id(name, rx[i])
          dmr == fetch_dailymed_summary(name, dm[i])
      IN  IF rxr.raised
          THEN [acc EXCEPT !.raised = TRUE, !.rxnorm_calls = @ + 1]
          ELSE IF dmr.raised
          THEN [acc EXCEPT !.raised = TRUE, !.rxnorm_calls = @ + 1,
                           !.dailymed_calls = @ + 1]
          ELSE ScoreFrom(medications, rx, dm, i + 1,
                 [raised |-> FALSE,
                  scores |-> Append(acc.scores,
                     [name |-> name,
                      normalization |-> NormalizationLevel(rxr.value, dmr.value),
                      rxnorm_match |-> ~rxr.value.none,
                      dailymed_match |-> ~dmr.value.none,
                      reason |-> NormalizationReason(rxr.value, dmr.value)]),
                  api_results |-> Append(acc.api_results,
                     [drug |-> name, rxnorm_id |-> rxr.value,
                      dailymed_info |-> dmr.value]),
                  rxnorm_calls |-> acc.rxnorm_calls + 1,
                  dailymed_calls |-> acc.dailymed_calls + 1])

\* _score_medications
_score_medications(medications, rx, dm) ==
    ScoreFrom(medications, rx, dm, 1,
        [raised |-> FALSE, scores |-> <<>>, api_results |-> <<>>,
         rxnorm_calls |-> 0, dailymed_calls |-> 0])

\* _compute_grounding_coverage counting a record only when it has both an
\* id and a label
_compute_grounding_coverage_BothSources(api_results) ==
    IF api_results = <<>> THEN 0
    ELSE
      LET grounded == Cardinality({i \in 1..Len(api_results) :
                         /\ RxTruthy(api_results[i].rxnorm_id)
                         /\ DmTruthy(api_results[i].dailymed_info)})
          n == Len(api_results)
      IN  (2000 * grounded + n) \div (2 * n)

\* _compute_grounding_coverage, in tenths of a percent: round(x, 1) of
\* 100 * grounded / len.  No tie x.x5 arises for fewer than 16 records.
_compute_grounding_coverage(api_results) ==
    IF api_results = <<>> THEN 0
    ELSE
      LET grounded == Cardinality({i \in 1..Len(api_results) :
                         \/ RxTruthy(api_results[i].rxnorm_id)
                         \/ DmTruthy(api_results[i].dailymed_info)})
          n == Len(api_results)
      IN  (2000 * grounded + n) \div (2 * n)

\* _level_to_rank: the 0-based index in CONFIDENCE_LEVELS, 0 if unknown
_level_to_rank(level) ==
    IF \E i \in 1..Len(CONFIDENCE_LEVELS) : CONFIDENCE_LEVELS[i] = level
    THEN (CHOOSE i \in 1..Len(CONFIDENCE_LEVELS) : CONFIDENCE_LEVELS[i] = level) - 1
    ELSE 0

\* _rank_to_level
_rank_to_level(rank) ==
    CONFIDENCE_LEVELS[Min(rank, Len(CONFIDENCE_LEVELS) - 1) + 1]

\* OverallLevel with the medication scores left out of the minimum
OverallLevel_DiagnosisOnly(all_levels) ==
    IF all_levels # <<>> THEN all_levels[1] ELSE "Low"

\* the aggregation at confidence_scorer.py lines 186-193
OverallLevel(all_levels) ==
    IF all_levels # <<>>
    THEN _rank_to_level(SetMin({_level_to_rank(all_levels[i]) :
                                   i \in 1..Len(all_levels)}))
    ELSE "Low"

NoConfidence ==
    [diagnosis_confidence |-> "", diagnosis_reason |-> "",
     medication_scores |-> <<>>, api_grounding_coverage |-> 0,
     overall_confidence |-> ""]

\* compute_confidence; prescription_data is [diagnosis, medications], the
\* medications an optional list ("medications", []) or []
compute_confidence(prescription_data, rx, dm) ==
    LET diagnosis_score == _score_diagnosis(prescription_data.diagnosis)
        medications == IF prescription_data.medications.none
                       THEN <<>>
                       ELSE prescription_data.medications.items
        scored == _score_medications(medications, rx, dm)
        med_scores == scored.scores
        api_results == scored.api_results
        all_levels == <<diagnosis_score.level>>
                      \o [i \in 1..Len(med_scores) |-> med_scores[i].normalization]
    IN  IF scored.raised
        THEN [raised |-> TRUE, confidence |-> NoConfidence, api_results |-> <<>>,
              rxnorm_calls |-> scored.rxnorm_calls,
              dailymed_calls |-> scored.dailymed_calls]
        ELSE [raised |-> FALSE,
              confidence |->
                 [diagnosis_confidence |-> diagnosis_score.level,
                  diagnosis_reason |-> diagnosis_score.reason,
                  medication_scores |-> med_scores,
                  api_grounding_coverage |-> _compute_grounding_coverage(api_results),
                  overall_confidence |-> OverallLevel(all_levels)],
              api_results |-> api_results,
              rxnorm_calls |-> scored.rxnorm_calls,
              dailymed_calls |-> scored.dailymed_calls]

-----------------------------------------------------------------------------
(* The text of an LLM answer and its post-processing                       *)
(* (drug_interaction_checker.py 149-157, evaluation.py 223-231)            *)

Fence == [t |-> "fence"]     \* ```

Lang == [t |-> "lang"]       \* a language tag such as json

NL == [t |-> "nl"]           \* "\n"

SP == [t |-> "sp"]           \* " "

Prose == [t |-> "prose"]     \* words that are not JSON

Json(doc) == [t |-> "json", doc |-> doc]

IsSpaceTok(tok) == tok.t \in {"nl", "sp"}

RECURSIVE LStripTok(_)
LStripTok(raw) ==
    IF raw # <<>> /\ IsSpaceTok(Head(raw)) THEN LStripTok(Tail(raw)) ELSE raw

RECURSIVE RStripTok(_)
RStripTok(raw) ==
    IF raw # <<>> /\ IsSpaceTok(raw[Len(raw)])
    THEN RStripTok(SubSeq(raw, 1, Len(raw) - 1))
    ELSE raw

\* str.strip() of an LLM text
StripTok(raw) == RStripTok(LStripTok(raw))

\* raw.split("\n", 1)[-1]: what follows the first newline, or the whole
\* text when it has no newline
AfterFirstNewline(raw) ==
    IF \E i \in 1..Len(raw) : raw[i].t = "nl"
    THEN LET i == CHOOSE k \in 1..Len(raw) :
                     raw[k].t = "nl" /\ \A j \in 1..(k - 1) : raw[j].t # "nl"
         IN  SubSeq(raw, i + 1, Len(raw))
    ELSE raw

\* "Strip markdown code fences if present": the trailing fence is looked
\* for only when a leading fence was found
StripFences(content) ==
    LET raw_output == StripTok(content)
    IN  IF raw_output # <<>> /\ Head(raw_output).t = "fence"
        THEN LET rest == AfterFirstNewline(raw_output)
             IN  IF rest # <<>> /\ rest[Len(rest)].t = "fence"
                 THEN StripTok(SubSeq(rest, 1, Len(rest) - 1))
                 ELSE rest
        ELSE raw_output

NoDoc == [kind |-> "none"]

\* json.loads: one JSON document with nothing but whitespace around it,
\* anything else is a JSONDecodeError
json_loads(raw_output) ==
    LET core == StripTok(raw_output)
    IN  IF Len(core) = 1 /\ core[1].t = "json"
        THEN [ok |-> TRUE, doc |-> core[1].doc]
        ELSE [ok |-> FALSE, doc |-> NoDoc]

-----------------------------------------------------------------------------
(* drug_interaction_checker.py                                             *)

\* [m.get("name", "") for m in medications if m.get("name")]
RECURSIVE NamedMeds(_)
NamedMeds(medications) ==
    IF medications = <<>> THEN <<>>
    ELSE (IF Head(medications).name # "" THEN <<Head(medications).name>> ELSE <<>>)
         \o NamedMeds(Tail(medications))

\* len(list(combinations(med_names, 2))): the pairs of positions i < j
CombinationsCount(med_names) ==
    Cardinality({p \in (1..Len(med_names)) \X (1..Len(med_names)) : p[1] < p[2]})

ShortDisclaimer == "Interaction detection is advisory only."

FullDisclaimer ==
    "Interaction detection is advisory only. Do not treat as definitive medical advice."

\* the report of the two early returns (lines 107-123)
TooFewReport(n) ==
    [interactions |-> <<>>, total_checked |-> n, interactions_found |-> 0,
     disclaimer |-> ShortDisclaimer]

\* the report of the JSONDecodeError handler (lines 173-181)
InvalidJsonReport(med_names) ==
    [interactions |-> <<>>, total_checked |-> CombinationsCount(med_names),
     interactions_found |-> 0,
     error |-> "Failed to parse interaction analysis",
     disclaimer |-> ShortDisclaimer]

\* the report of the Exception handler (lines 183-191)
UnexpectedErrorReport(med_names) ==
    [interactions |-> <<>>, total_checked |-> 0, interactions_found |-> 0,
     error |-> "Interaction check failed",
     disclaimer |-> ShortDisclaimer]

\* drug_classes[name] = classes if classes else ["Unknown"] (lines 128-131)
DrugClasses(med_names, classResp) ==
    [name \in Range(med_names) |->
        LET classes == fetch_drug_classes(name, classResp[name])
        IN  IF classes # <<>> THEN classes ELSE <<"Unknown">>]

\* SuccessReport with a fallback that flags the first pair when the LLM
\* reported nothing
SuccessReport_FlagsFirstPair(result, med_names, drug_classes) ==
    LET interactions ==
            IF result.kind = "object" /\ result.interactions.tag = "list"
               /\ result.interactions.items # <<>>
            THEN result.interactions.items
            ELSE <<[drug_pair |-> <<med_names[1], med_names[2]>>,
                    risk_level |-> "Low"]>>
    IN  [interactions |-> interactions,
         total_checked |-> CombinationsCount(med_names),
         interactions_found |-> Len(interactions),
         summary |-> "",
         drug_classes |-> drug_classes,
         disclaimer |-> FullDisclaimer]

\* the report of the success path (lines 159-171); result is the parsed
\* JSON document.  result.get on a document that is no object and len()
\* of a null interactions value raise, and the Exception handler answers.
SuccessReport(result, med_names, drug_classes) ==
    IF result.kind # "object" THEN UnexpectedErrorReport(med_names)
    ELSE IF result.interactions.tag = "null" THEN UnexpectedErrorReport(med_names)
    ELSE
      LET interactions == IF result.interactions.tag = "absent"
                          THEN <<>>
                          ELSE result.interactions.items
      IN  [interactions |-> interactions,
           total_checked |-> CombinationsCount(med_names),
           interactions_found |-> Len(interactions),
           summary |-> IF result.summary.none THEN "" ELSE result.summary.text,
           drug_classes |-> drug_classes,
           disclaimer |-> FullDisclaimer]

NoCalls ==
    [rxnorm |-> 0, dailymed |-> 0, drug_classes |-> 0, openfda |-> 0, llm |-> 0]

\* check_interactions without its second guard (len(med_names) < 2)
check_interactions_CountsUnnamed(medications, classResp, fdaResp, llmOut) ==
    IF medications.none \/ Len(medications.items) < 2
    THEN [report |-> TooFewReport(IF medications.none THEN 0
                                  ELSE Len(medications.items)),
          calls |-> NoCalls]
    ELSE
      LET med_names == NamedMeds(medications.items)
          parsed == json_loads(StripFences(llmOut.content))
      IN  [report |->
              IF llmOut.raised THEN UnexpectedErrorReport(med_names)
              ELSE IF ~parsed.ok THEN InvalidJsonReport(med_names)
              ELSE SuccessReport(parsed.doc, med_names,
                                 DrugClasses(med_names, classResp)),
           calls |-> [NoCalls EXCEPT !.drug_classes = Len(med_names),
                                     !.openfda = Len(med_names),
                                     !.llm = 1]]

\* check_interactions; medications is an optional list of [name |-> ...],
\* classResp and fdaResp give the exchange each name's lookup runs into,
\* llmOut is [raised, content], the outcome of llm.invoke.
check_interactions(medications, classResp, fdaResp, llmOut) ==
    IF medications.none \/ Len(medications.items) < 2
    THEN [report |-> TooFewReport(IF medications.none THEN 0
                                  ELSE Len(medications.items)),
          calls |-> NoCalls]
    ELSE
      LET med_names == NamedMeds(medications.items)
      IN  IF Len(med_names) < 2
          THEN [report |-> TooFewReport(Len(med_names)), calls |-> NoCalls]
          ELSE
            LET drug_classes == DrugClasses(med_names, classResp)
                made == [NoCalls EXCEPT !.drug_classes = Len(med_names),
                                        !.openfda = Len(med_names),
                                        !.llm = 1]
                parsed == json_loads(StripFences(llmOut.content))
            IN  [report |->
                    IF llmOut.raised THEN UnexpectedErrorReport(med_names)
                    ELSE IF ~parsed.ok THEN InvalidJsonReport(med_names)
                    ELSE SuccessReport(parsed.doc, med_names, drug_classes),
                 calls |-> made]

-----------------------------------------------------------------------------
(* evaluation.py: detect_hallucinations                                    *)

\* the fast path (lines 205-211)
NoAnswerReport ==
    [hallucinations |-> <<>>, hallucination_count |-> 0, is_grounded |-> TRUE,
     grounding_notes |-> "No answer to evaluate"]

\* InvalidOutputReport reporting "nothing found" instead of the sentinel
InvalidOutputReport_NoFindings ==
    [hallucinations |-> <<>>, hallucination_count |-> 0, is_grounded |-> TRUE,
     grounding_notes |-> "Hallucination detection failed (invalid LLM output)"]

\* the JSONDecodeError handler (lines 244-251)
InvalidOutputReport ==
    [hallucinations |-> <<>>, hallucination_count |-> -1, is_grounded |-> FALSE,
     grounding_notes |-> "Hallucination detection failed (invalid LLM output)"]

\* the Exception handler (lines 253-260)
DetectionFailedReport ==
    [hallucinations |-> <<>>, hallucination_count |-> -1, is_grounded |-> FALSE,
     grounding_notes |-> "Hallucination detection failed"]

\* lines 233-242; the default of result.get("hallucination_count", ...) is
\* evaluated before the lookup, so len() of a null hallucinations value
\* raises whether or not the count is given
VerdictReport(result) ==
    IF result.kind # "object" THEN DetectionFailedReport
    ELSE IF result.hallucinations.tag = "null" THEN DetectionFailedReport
    ELSE
      LET listed == IF result.hallucinations.tag = "absent"
                    THEN <<>>
                    ELSE result.hallucinations.items
          hallucination_count ==
              IF result.hallucination_count.none
              THEN Len(listed)
              ELSE result.hallucination_count.n
      IN  [hallucinations |-> listed,
           hallucination_count |-> hallucination_count,
           is_grounded |-> IF result.is_grounded.none
                           THEN hallucination_count = 0
                           ELSE result.is_grounded.v,
           grounding_notes |-> IF result.grounding_notes.none
                               THEN ""
                               ELSE result.grounding_notes.text]

\* detect_hallucinations with a fast path that tests only "not answer"
detect_hallucinations_NoStrip(answer, prescription, api_data, llmOut) ==
    IF answer.none \/ answer.text = <<>>
    THEN [report |-> NoAnswerReport, calls |-> NoCalls]
    ELSE
      LET parsed == json_loads(StripFences(llmOut.content))
      IN  [report |->
              IF llmOut.raised THEN DetectionFailedReport
              ELSE IF ~parsed.ok THEN InvalidOutputReport
              ELSE VerdictReport(parsed.doc),
           calls |-> [NoCalls EXCEPT !.llm = 1]]

\* detect_hallucinations; answer is an optional text, llmOut the outcome
\* of llm.invoke.  prescription and api_data only reach the prompt.
detect_hallucinations(answer, prescription, api_data, llmOut) ==
    IF answer.none \/ answer.text = <<>> \/ Strip(answer.text) = <<>>
    THEN [report |-> NoAnswerReport, calls |-> NoCalls]
    ELSE
      LET parsed == json_loads(StripFences(llmOut.content))
      IN  [report |->
              IF llmOut.raised THEN DetectionFailedReport
              ELSE IF ~parsed.ok THEN InvalidOutputReport
              ELSE VerdictReport(parsed.doc),
           calls |-> [NoCalls EXCEPT !.llm = 1]]

-----------------------------------------------------------------------------
(* The inputs the calls are checked on                                     *)

NetError == [net |-> "error", status |-> 0, body |-> [json |-> FALSE]]

Http(status, body) == [net |-> "ok", status |-> status, body |-> body]

NotJson == [json |-> FALSE]

\* exchanges of the RxNorm lookup: connection failure, 404, an idGroup
\* without rxnormId (RxNorm's answer for an unknown name), an id
RxSample ==
    { NetError,
      Http(404, NotJson),
      Http(200, [json |-> TRUE, hasIdGroup |-> TRUE, hasRxnormId |-> FALSE,
                 rxnormId |-> <<>>]),
      Http(200, [json |-> TRUE, hasIdGroup |-> TRUE, hasRxnormId |-> TRUE,
                 rxnormId |-> <<"11289">>]) }

SampleSpl == [title |-> "WARFARIN SODIUM tablet", setid |-> "s1",
              published_date |-> "2024-01-01"]

\* exchanges of the DailyMed lookup: a body that is not JSON, no match, a
\* label
DmSample ==
    { Http(200, NotJson),
      Http(200, [json |-> TRUE, hasData |-> TRUE, data |-> <<>>]),
      Http(200, [json |-> TRUE, hasData |-> TRUE, data |-> <<SampleSpl>>]) }

Diagnoses ==
    { NoneStr,
      Str(<<>>),
      Str(<<"M","B","C">>),
      Str(<<"M","e","t","a","s","t","a","t","i","c"," ","B","r","e","a","s","t"," ","C","a","n","c","e","r">>) }

\* the medications of the prescriptions scored: the first k of this list
Roster == <<"Warfarin", "Aspirin", "Ibuprofen", "Metformin", "Denosumab">>

RosterMeds(k) == [i \in 1..k |-> [name |-> Roster[i]]]

NoneList == [none |-> TRUE, items |-> <<>>]

List(items) == [none |-> FALSE, items |-> items]

Prescriptions ==
    { [diagnosis |-> d, medications |-> m] :
        d \in Diagnoses,
        m \in {NoneList} \cup {List(RosterMeds(k)) : k \in 0..Min(MaxScoredMeds, Len(Roster))} }

MedNames == {"", "Warfarin", "Aspirin", "Ibuprofen"}

MedicationArgs ==
    {NoneList} \cup {List(l) : l \in SeqsUpTo({[name |-> n] : n \in MedNames}, MaxMeds)}

ClassBody(infos) == [json |-> TRUE, wellFormed |-> TRUE, infos |-> infos]

\* what the RxClass service answers for each name
ClassWorlds ==
    { [n \in MedNames |-> NetError],
      [n \in MedNames |->
          IF n = "Warfarin"
          THEN Http(200, ClassBody(<<"Anticoagulants", "", "Anticoagulants",
                                     "Vitamin K Antagonists">>))
          ELSE IF n = "Aspirin" THEN Http(404, NotJson)
          ELSE Http(200, [json |-> TRUE, wellFormed |-> FALSE, infos |-> <<>>])] }

FdaBody(products) == [json |-> TRUE, wellFormed |-> TRUE, products |-> products]

\* what OpenFDA answers for each name
FdaWorlds ==
    { [n \in MedNames |-> Http(500, NotJson)],
      [n \in MedNames |->
          IF n = "Warfarin"
          THEN Http(200, FdaBody(<<"ASPIRIN", "WARFARIN", "", "ASPIRIN">>))
          ELSE Http(200, NotJson)] }

LlmRaises == [raised |-> TRUE, content |-> <<>>]

LlmReturns(content) == [raised |-> FALSE, content |-> content]

\* the ways an LLM wraps one body: bare, fenced with and without a
\* language tag, padded, fence and body on one line, one fence only
Bare(b) == <<b>>

Wrappings(b) ==
    { <<Fence, Lang, NL, b, NL, Fence>>,
      <<Fence, NL, b, NL, Fence>>,
      <<NL, SP, b, SP, NL>>,
      <<Fence, Lang, SP, b, SP, Fence>>,
      <<Fence, Lang, NL, b>>,
      <<b, NL, Fence>> }

Absent == [tag |-> "absent", items |-> <<>>]

Null == [tag |-> "null", items |-> <<>>]

Items(l) == [tag |-> "list", items |-> l]

NoText == [none |-> TRUE, text |-> ""]

Text(t) == [none |-> FALSE, text |-> t]

Interaction(a, b, risk) ==
    [drug_pair |-> <<a, b>>, risk_level |-> risk]

\* interactions an LLM may report; Heparin is in no medication list
LlmInteractions ==
    { Interaction("Warfarin", "Aspirin", "High"),
      Interaction("Aspirin", "Ibuprofen", "Moderate"),
      Interaction("Warfarin", "Heparin", "High") }

InteractionDocs ==
    { [kind |-> "object", interactions |-> i, summary |-> s] :
        i \in {Absent, Null}
              \cup {Items(l) : l \in SeqsUpTo(LlmInteractions, MaxInteractions)},
        s \in {NoText, Text("Bleeding risk")} }
    \cup {[kind |-> "array"], [kind |-> "string"]}

SampleInteractionDoc ==
    [kind |-> "object",
     interactions |-> Items(<<Interaction("Warfarin", "Aspirin", "High")>>),
     summary |-> Text("Bleeding risk")]

InteractionLlmOutcomes ==
    {LlmRaises}
    \cup {LlmReturns(Bare(Json(d))) : d \in InteractionDocs}
    \cup {LlmReturns(<<>>), LlmReturns(Bare(Prose))}
    \cup {LlmReturns(w) : w \in Wrappings(Json(SampleInteractionDoc))}
    \cup {LlmReturns(w) : w \in Wrappings(Prose)}

Answers ==
    { NoneStr,
      Str(<<>>),
      Str(<<" ", "\n">>),
      Str(<<"T","a","k","e"," ","i","t">>),
      Str(<<" ">> \o <<"o","k">> \o <<"\n">>) }

NoInt == [none |-> TRUE, n |-> 0]

Int1(n) == [none |-> FALSE, n |-> n]

NoBool == [none |-> TRUE, v |-> FALSE]

Bool(v) == [none |-> FALSE, v |-> v]

Flag(claim, severity) == [claim |-> claim, severity |-> severity]

LlmFlags ==
    { Flag("Causes hair loss", "Medium"), Flag("Treats diabetes", "High") }

\* counts an LLM may state, whatever it listed
LlmCounts == {-1, 0, 2}

HallucinationDocs ==
    { [kind |-> "object", hallucinations |-> h, hallucination_count |-> c,
       is_grounded |-> g, grounding_notes |-> t] :
        h \in {Absent, Null} \cup {Items(l) : l \in SeqsUpTo(LlmFlags, MaxFlags)},
        c \in {NoInt} \cup {Int1(n) : n \in LlmCounts},
        g \in {NoBool, Bool(TRUE), Bool(FALSE)},
        t \in {NoText, Text("Mostly grounded")} }
    \cup {[kind |-> "array"], [kind |-> "string"]}

SampleHallucinationDoc ==
    [kind |-> "object",
     hallucinations |-> Items(<<Flag("Treats diabetes", "High")>>),
     hallucination_count |-> Int1(1), is_grounded |-> Bool(FALSE),
     grounding_notes |-> Text("Mostly grounded")]

HallucinationLlmOutcomes ==
    {LlmRaises}
    \cup {LlmReturns(Bare(Json(d))) : d \in HallucinationDocs}
    \cup {LlmReturns(<<>>), LlmReturns(Bare(Prose))}
    \cup {LlmReturns(w) : w \in Wrappings(Json(SampleHallucinationDoc))}
    \cup {LlmReturns(w) : w \in Wrappings(Prose)}

SamplePrescription ==
    [diagnosis |-> Str(<<"M","B","C">>), medications |-> List(RosterMeds(1))]

ApiData ==
    { <<>>,
      <<[drug |-> "Warfarin", rxnorm_id |-> SomeId("11289"),
         dailymed_info |-> SomeInfo(SampleSpl)]>> }

-----------------------------------------------------------------------------
(* The state machine: one call of one public entry point.  The three       *)
(* functions keep nothing between calls (the module-level llm client and   *)
(* prompts are never written), so a behaviour is one call on inputs and    *)
(* collaborator answers drawn from the sets above.                         *)

Init ==
    /\ entry = "none"
    /\ args = <<>>
    /\ env = <<>>
    /\ ret = [raised |-> FALSE]
    /\ calls = NoCalls
    /\ SESSION_STORE = <<>>
    /\ lookups = <<>>
    /\ served = 0

\* a call of confidence_scorer.compute_confidence
ComputeConfidence ==
    /\ entry = "none"
    /\ \E p \in Prescriptions :
         LET n == Len(p.medications.items)
         IN  \E rx \in [1..n -> RxSample], dm \in [1..n -> DmSample] :
               LET r == compute_confidence(p, rx, dm)
               IN  /\ entry' = "compute_confidence"
                   /\ args' = [prescription_data |-> p]
                   /\ env' = [rxnorm |-> rx, dailymed |-> dm]
                   /\ ret' = [raised |-> r.raised, report |-> r.confidence,
                              api_results |-> r.api_results]
                   /\ calls' = [NoCalls EXCEPT !.rxnorm = r.rxnorm_calls,
                                               !.dailymed = r.dailymed_calls]
                   /\ UNCHANGED routeVars

\* a call of drug_interaction_checker.check_interactions
CheckInteractions ==
    /\ entry = "none"
    /\ \E m \in MedicationArgs, cw \in ClassWorlds, fw \in FdaWorlds,
          l \in InteractionLlmOutcomes :
         LET r == check_interactions(m, cw, fw, l)
         IN  /\ entry' = "check_interactions"
             /\ args' = [medications |-> m]
             /\ env' = [drug_classes |-> cw, openfda |-> fw, llm |-> l]
             /\ ret' = [raised |-> FALSE, report |-> r.report]
             /\ calls' = r.calls
             /\ UNCHANGED routeVars

\* a call of evaluation.detect_hallucinations
DetectHallucinations ==
    /\ entry = "none"
    /\ \E a \in Answers, d \in ApiData, l \in HallucinationLlmOutcomes :
         LET r == detect_hallucinations(a, SamplePrescription, d, l)
         IN  /\ entry' = "detect_hallucinations"
             /\ args' = [answer |-> a, prescription |-> SamplePrescription,
                         api_data |-> d]
             /\ env' = [llm |-> l]
             /\ ret' = [raised |-> FALSE, report |-> r.report]
             /\ calls' = r.calls
             /\ UNCHANGED routeVars

Next ==
    \/ ComputeConfidence
    \/ CheckInteractions
    \/ DetectHallucinations

Spec == Init /\ [][Next]_vars

-----------------------------------------------------------------------------
(* tests/test_ocr_evaluation.py: text normalisation of the OCR metrics.    *)
(* A text is a sequence of characters; "U+00E9" is the precomposed e with  *)
(* acute accent and "U+0301" the combining acute accent.                   *)

Digits == {"0", "1", "2", "3", "4", "5", "6", "7", "8", "9"}

\* the punctuation the character class [^\w\s.,;:/()\-] lets through
AllowedPunctuation == {".", ",", ";", ":", "/", "(", ")", "-"}

\* \w of a str pattern: letters, digits and the underscore (a combining
\* mark is not alphanumeric)
IsWordChar(c) == IsAlpha(c) \/ c \in Digits \/ c = "_"

\* unicodedata.normalize("NFKD", text): a precomposed letter becomes its
\* base letter followed by the combining mark
RECURSIVE NFKD(_)
NFKD(text) ==
    IF text = <<>> THEN <<>>
    ELSE (IF Head(text) = "U+00E9" THEN <<"e", "U+0301">> ELSE <<Head(text)>>)
         \o NFKD(Tail(text))

\* re.sub(r"[^\w\s.,;:/()\-]", "", text)
RECURSIVE RemoveDisallowed(_)
RemoveDisallowed(text) ==
    IF text = <<>> THEN <<>>
    ELSE (IF \/ IsWordChar(Head(text))
             \/ Head(text) \in Whitespace
             \/ Head(text) \in AllowedPunctuation
          THEN <<Head(text)>> ELSE <<>>)
         \o RemoveDisallowed(Tail(text))

\* re.sub(r"\s+", " ", text): each run of whitespace becomes one space
RECURSIVE CollapseWhitespace(_)
CollapseWhitespace(text) ==
    IF text = <<>> THEN <<>>
    ELSE IF Head(text) \in Whitespace
         THEN <<" ">> \o CollapseWhitespace(LStrip(text))
         ELSE <<Head(text)>> \o CollapseWhitespace(Tail(text))

\* normalise: NFKD, lower-case, strip, drop the disallowed symbols,
\* collapse whitespace, in that order
normalise(text) ==
    CollapseWhitespace(RemoveDisallowed(Strip(Lower(NFKD(text)))))

\* one pass of the inner loop (lines 246-252): x is a[i - 1], old the row
\* before the pass, row the entries dp[0..j-1] already overwritten
RECURSIVE FillRow(_, _, _, _)
FillRow(x, b, old, row) ==
    IF Len(row) > Len(b) THEN row
    ELSE
      LET j == Len(row)
          cost == IF x = b[j] THEN 0 ELSE 1
          ins == old[j + 1] + 1
          dele == row[j] + 1
          sub == old[j] + cost
      IN  FillRow(x, b, old, Append(row, Min(Min(ins, dele), sub)))

\* the outer loop (lines 244-252) from row i on; dp keeps its m + 1
\* entries throughout
RECURSIVE RowsFrom(_, _, _, _)
RowsFrom(a, b, dp, i) ==
    IF i > Len(a) \/ Len(dp) # Len(b) + 1 THEN dp
    ELSE RowsFrom(a, b, FillRow(a[i], b, dp, <<i>>), i + 1)

\* the distance counting only the positions of a that b does not repeat
_levenshtein_PositionsOfA(a, b) ==
    Cardinality({i \in 1..Len(a) : i > Len(b) \/ a[i] # b[i]})

\* _levenshtein: dp = list(range(m + 1)), then one pass per character of a
_levenshtein(a, b) ==
    RowsFrom(a, b, [j \in 1..(Len(b) + 1) |-> j - 1], 1)[Len(b) + 1]

\* _word_level_levenshtein: the same loops over lists of tokens
_word_level_levenshtein(a, b) ==
    RowsFrom(a, b, [j \in 1..(Len(b) + 1) |-> j - 1], 1)[Len(b) + 1]

-----------------------------------------------------------------------------
(* evaluation.py: the parsing F1 score.  A JSON value is None, a text, a   *)
(* dict (a list of key/value fields) or a list; ratios are held in         *)
(* thousandths, as round(x, 3) leaves them.                                *)

JNone == [kind |-> "none"]

JStr(chars) == [kind |-> "str", text |-> chars]

JDict(fields) == [kind |-> "dict", fields |-> fields]

JList(items) == [kind |-> "list", items |-> items]

Field(key, value) == [key |-> key, value |-> value]

\* _extract_field_set: the lower-cased, stripped texts of the leaves that
\* are not None, through nested dicts and through the dicts of lists
RECURSIVE _extract_field_set(_)
_extract_field_set(data) ==
    UNION { LET value == data.fields[k].value
            IN  IF value.kind = "none" THEN {}
                ELSE IF value.kind = "dict" THEN _extract_field_set(value)
                ELSE IF value.kind = "list"
                THEN UNION { LET item == value.items[i]
                             IN  IF item.kind = "dict"
                                 THEN _extract_field_set(item)
                                 ELSE IF item.kind # "none"
                                 THEN {Strip(Lower(item.text))}
                                 ELSE {} : i \in 1..Len(value.items) }
                ELSE {Strip(Lower(value.text))} :
            k \in 1..Len(data.fields) }

\* round(n / d, 3) in thousandths (no tie arises for the set sizes met)
RoundedRatio(n, d) == (2000 * n + d) \div (2 * d)

\* compute_parsing_f1 with the recall taken over the predicted values
compute_parsing_f1_RecallOverPredicted(predicted, ground_truth) ==
    LET pred_values == _extract_field_set(predicted)
        truth_values == _extract_field_set(ground_truth)
        matched == pred_values \cap truth_values
        p == Cardinality(pred_values)
        m == Cardinality(matched)
    IN  [precision |-> IF p = 0 THEN 0 ELSE RoundedRatio(m, p),
         recall |-> IF p = 0 THEN 0 ELSE RoundedRatio(m, p),
         f1 |-> IF m = 0 THEN 0 ELSE RoundedRatio(m, p),
         matched |-> m, predicted_count |-> p,
         truth_count |-> Cardinality(truth_values)]

\* compute_parsing_f1: f1 = 2pr / (p + r) of the unrounded precision
\* m / p and recall m / t is 2m / (p + t); it is 0 when p + r is, that is
\* when nothing matched
compute_parsing_f1(predicted, ground_truth) ==
    LET pred_values == _extract_field_set(predicted)
        truth_values == _extract_field_set(ground_truth)
        matched == pred_values \cap truth_values
        p == Cardinality(pred_values)
        t == Cardinality(truth_values)
        m == Cardinality(matched)
    IN  IF pred_values = {} /\ truth_values = {}
        THEN [precision |-> 1000, recall |-> 1000, f1 |-> 1000,
              matched |-> 0, predicted_count |-> 0, truth_count |-> 0]
        ELSE [precision |-> IF p = 0 THEN 0 ELSE RoundedRatio(m, p),
              recall |-> IF t = 0 THEN 0 ELSE RoundedRatio(m, t),
              f1 |-> IF m = 0 THEN 0 ELSE RoundedRatio(2 * m, p + t),
              matched |-> m, predicted_count |-> p, truth_count |-> t]

\* x in y: x occurs in y as a run of consecutive characters
IsSubstring(x, y) ==
    \E k \in 0..(Len(y) - Len(x)) : \A i \in 1..Len(x) : y[k + i] = x[i]

\* the largest of three numbers
Max3(x, y, z) == CHOOSE v \in {x, y, z} : \A w \in {x, y, z} : w <= v

\* _fuzzy_match without the substring test
_fuzzy_match_NoSubstring(candidate, reference, threshold) ==
    LET c == normalise(candidate)
        r == normalise(reference)
        dist == _levenshtein(c, r)
        max_len == Max3(Len(c), Len(r), 1)
    IN  10 * (max_len - dist) >= threshold * max_len

\* _fuzzy_match; threshold is in tenths.  (1 - dist / max_len) >= threshold
\* is taken exactly: for the thresholds 0.5, 0.6 and 0.8 the floating-point
\* comparison gives the same answer for every length below 30.
_fuzzy_match(candidate, reference, threshold) ==
    LET c == normalise(candidate)
        r == normalise(reference)
        dist == _levenshtein(c, r)
        max_len == Max3(Len(c), Len(r), 1)
    IN  IF IsSubstring(r, c) \/ IsSubstring(c, r) THEN TRUE
        ELSE 10 * (max_len - dist) >= threshold * max_len

-----------------------------------------------------------------------------
(* evaluation.py: compute_grounding_coverage                               *)

\* result.get("rxnorm_id") is not None
HasRxnorm(result) == ~result.rxnorm_id.none

\* result.get("dailymed_info") is not None
HasDailymed(result) == ~result.dailymed_info.none

\* the entry appended to details for one record (lines 125-137)
Detail(result) ==
    [drug |-> result.drug,
     grounded |-> HasRxnorm(result) \/ HasDailymed(result),
     rxnorm |-> HasRxnorm(result),
     dailymed |-> HasDailymed(result)]

\* compute_grounding_coverage; coverage_percent in tenths of a percent,
\* round(x, 1) of 100 * grounded / len
compute_grounding_coverage(api_results) ==
    IF api_results = <<>>
    THEN [coverage_percent |-> 0, grounded_count |-> 0, total_count |-> 0,
          details |-> <<>>]
    ELSE
      LET details == [i \in 1..Len(api_results) |-> Detail(api_results[i])]
          grounded == Cardinality({i \in 1..Len(api_results) :
                                      details[i].grounded})
          n == Len(api_results)
      IN  [coverage_percent |-> (2000 * grounded + n) \div (2 * n),
           grounded_count |-> grounded,
           total_count |-> n,
           details |-> details]

-----------------------------------------------------------------------------
(* Inputs of the single functions                                          *)

MaxDiagLen == 6

MaxRecords == 3

MaxTextLen == 4

\* HTTP statuses a service answers with
Statuses == {200, 404, 500}

\* every exchange of the RxNorm lookup: connection failure or timeout, a
\* body that is not JSON, and JSON with or without idGroup, rxnormId and ids
RxExchanges ==
    {NetError}
    \cup {Http(s, NotJson) : s \in Statuses}
    \cup { Http(s, [json |-> TRUE, hasIdGroup |-> g, hasRxnormId |-> h,
                    rxnormId |-> ids]) :
             s \in Statuses, g \in BOOLEAN, h \in BOOLEAN,
             ids \in {<<>>, <<"11289">>, <<"11289", "855332">>} }

\* every exchange of the DailyMed lookup
DmExchanges ==
    {NetError}
    \cup {Http(s, NotJson) : s \in Statuses}
    \cup { Http(s, [json |-> TRUE, hasData |-> h, data |-> d]) :
             s \in Statuses, h \in BOOLEAN,
             d \in {<<>>, <<SampleSpl>>, <<SampleSpl, SampleSpl>>} }

\* every exchange of the RxClass lookup
ClassExchanges ==
    {NetError}
    \cup {Http(s, NotJson) : s \in Statuses}
    \cup { Http(s, [json |-> TRUE, wellFormed |-> w, infos |-> i]) :
             s \in Statuses, w \in BOOLEAN,
             i \in SeqsUpTo({"", "Anticoagulants", "Vitamin K Antagonists"}, 2) }

\* every exchange of the OpenFDA lookup
FdaExchanges ==
    {NetError}
    \cup {Http(s, NotJson) : s \in Statuses}
    \cup { Http(s, [json |-> TRUE, wellFormed |-> w, products |-> p]) :
             s \in Statuses, w \in BOOLEAN,
             p \in SeqsUpTo({"", "ASPIRIN", "WARFARIN"}, 2) }

\* diagnoses: the examples of the docstring and of the specification, and
\* every text up to MaxDiagLen over an upper-case letter, two lower-case
\* letters, a blank and a digit
DiagnosisTexts ==
    Diagnoses
    \cup {Str(<<"D", "M">>)}
    \cup {Str(t) : t \in SeqsUpTo({"D", "d", "m", " ", "2"}, MaxDiagLen)}

\* grounding records: id and label each present or None
GroundingRecords ==
    { [drug |-> "Warfarin", rxnorm_id |-> i, dailymed_info |-> l] :
        i \in {NoId, SomeId("11289")}, l \in {NoInfo, SomeInfo(SampleSpl)} }

\* texts to normalise: letters of both cases, whitespace, allowed
\* punctuation, a disallowed symbol and an accented letter, in any order
NormaliseTexts ==
    SeqsUpTo({"a", "A", " ", "\n", ".", "#", "U+00E9"}, MaxTextLen)

MaxEditLen == 3

\* the strings whose distance is taken
EditStrings == SeqsUpTo({"a", "b"}, MaxEditLen)

\* the token lists whose distance is taken
EditTokens == SeqsUpTo({<<"m","g">>, <<"p","o">>}, MaxEditLen)

\* diagnoses of the compared prescriptions: missing, padded upper case,
\* lower case, another one
ComparedDiagnoses ==
    { JNone, JStr(<<" ", "M", "B", "C">>), JStr(<<"m", "b", "c">>),
      JStr(<<"H", "T", "N">>) }

\* a medication of a compared prescription
Med(name, dose) == JDict(<<Field("name", name), Field("dose", dose)>>)

\* medication lists of the compared prescriptions
ComparedMedications ==
    { JNone,
      JList(<<>>),
      JList(<<Med(JStr(<<"A", "s", "a">>), JNone)>>),
      JList(<<Med(JStr(<<"a", "s", "a", " ">>), JStr(<<"5", "m", "g">>))>>),
      JList(<<Med(JStr(<<"A", "s", "a">>), JNone),
              Med(JStr(<<"D", "m", "a", "b">>), JNone)>>),
      JList(<<JStr(<<"D", "m", "a", "b">>), JNone>>) }

\* the predicted and ground-truth prescriptions compared
ComparedPrescriptions ==
    { JDict(<<Field("diagnosis", d), Field("medications", m)>>) :
        d \in ComparedDiagnoses, m \in ComparedMedications }

MaxFuzzyLen == 3

\* threshold=0.6, the default, in tenths
DefaultThreshold == 6

\* the thresholds matched at, in tenths
Thresholds == {5, DefaultThreshold, 8}

MBC == <<"M", "B", "C">>

MetastaticBreastCancer == <<"m", "e", "t", "a", "s", "t", "a", "t", "i", "c", " ", "b", "r", "e", "a", "s", "t", " ", "c", "a", "n", "c", "e", "r">>

Denosumab == <<"d", "e", "n", "o", "s", "u", "m", "a", "b">>

Denosumab120mg == <<"d", "e", "n", "o", "s", "u", "m", "a", "b", " ", "1", "2", "0", " ", "m", "g">>

\* the pairs matched: the examples of the specification in both orders, a
\* pair whose similarity is exactly 0.6, a pair differing by a disallowed
\* symbol, and every pair of texts up to MaxFuzzyLen over two lower-case
\* letters and an upper-case one
FuzzyPairs ==
    { <<MBC, MetastaticBreastCancer>>, <<MetastaticBreastCancer, MBC>>,
      <<Denosumab, Denosumab120mg>>, <<Denosumab120mg, Denosumab>>,
      <<<<"a", "a", "a", "a", "a">>, <<"a", "a", "a", "b", "b">>>>,
      <<<<"a", "b", "#", "b", "a">>, <<"A", "b", "b", "a">>>> }
    \cup (SeqsUpTo({"a", "b", "A"}, MaxFuzzyLen)
             \X SeqsUpTo({"a", "b", "A"}, MaxFuzzyLen))

-----------------------------------------------------------------------------
(* One call of one function, on inputs drawn from the sets above.          *)

FetchRxnormId ==
    /\ entry = "none"
    /\ \E n \in MedNames \ {""}, r \in RxExchanges :
          LET v == fetch_rxnorm_id(n, r)
          IN  /\ entry' = "fetch_rxnorm_id"
              /\ args' = [drug_name |-> n]
              /\ env' = [http |-> r]
              /\ ret' = [raised |-> v.raised, value |-> v.value]
              /\ calls' = [NoCalls EXCEPT !.rxnorm = 1]
              /\ UNCHANGED routeVars

FetchDailymedSummary ==
    /\ entry = "none"
    /\ \E n \in MedNames \ {""}, r \in DmExchanges :
          LET v == fetch_dailymed_summary(n, r)
          IN  /\ entry' = "fetch_dailymed_summary"
              /\ args' = [drug_name |-> n]
              /\ env' = [http |-> r]
              /\ ret' = [raised |-> v.raised, value |-> v.value]
              /\ calls' = [NoCalls EXCEPT !.dailymed = 1]
              /\ UNCHANGED routeVars

FetchDrugClasses ==
    /\ entry = "none"
    /\ \E n \in MedNames \ {""}, r \in ClassExchanges :
          /\ entry' = "fetch_drug_classes"
          /\ args' = [drug_name |-> n]
          /\ env' = [http |-> r]
          /\ ret' = [raised |-> FALSE, value |-> fetch_drug_classes(n, r)]
          /\ calls' = [NoCalls EXCEPT !.drug_classes = 1]
          /\ UNCHANGED routeVars

FetchOpenfdaInteractions ==
    /\ entry = "none"
    /\ \E n \in MedNames \ {""}, r \in FdaExchanges :
          /\ entry' = "fetch_openfda_interactions"
          /\ args' = [drug_name |-> n]
          /\ env' = [http |-> r]
          /\ ret' = [raised |-> FALSE, value |-> fetch_openfda_interactions(n, r)]
          /\ calls' = [NoCalls EXCEPT !.openfda = 1]
          /\ UNCHANGED routeVars

ScoreDiagnosis ==
    /\ entry = "none"
    /\ \E d \in DiagnosisTexts :
          /\ entry' = "_score_diagnosis"
          /\ args' = [diagnosis |-> d]
          /\ env' = <<>>
          /\ ret' = [raised |-> FALSE, value |-> _score_diagnosis(d)]
          /\ calls' = NoCalls
          /\ UNCHANGED routeVars

ScoreMedications ==
    /\ entry = "none"
    /\ \E k \in 0..Min(MaxScoredMeds, Len(Roster)) :
       \E rx \in [1..k -> RxSample], dm \in [1..k -> DmSample] :
          LET r == _score_medications(RosterMeds(k), rx, dm)
          IN  /\ entry' = "_score_medications"
              /\ args' = [medications |-> RosterMeds(k)]
              /\ env' = [rxnorm |-> rx, dailymed |-> dm]
              /\ ret' = [raised |-> r.raised, scores |-> r.scores,
                         api_results |-> r.api_results]
              /\ calls' = [NoCalls EXCEPT !.rxnorm = r.rxnorm_calls,
                                          !.dailymed = r.dailymed_calls]
              /\ UNCHANGED routeVars

GroundingCoverage ==
    /\ entry = "none"
    /\ \E a \in SeqsUpTo(GroundingRecords, MaxRecords) :
          /\ entry' = "_compute_grounding_coverage"
          /\ args' = [api_results |-> a]
          /\ env' = <<>>
          /\ ret' = [raised |-> FALSE, value |-> _compute_grounding_coverage(a)]
          /\ calls' = NoCalls
          /\ UNCHANGED routeVars

Normalise ==
    /\ entry = "none"
    /\ \E t \in NormaliseTexts :
          /\ entry' = "normalise"
          /\ args' = [text |-> t]
          /\ env' = <<>>
          /\ ret' = [raised |-> FALSE, value |-> normalise(t)]
          /\ calls' = NoCalls
          /\ UNCHANGED routeVars

Levenshtein ==
    /\ entry = "none"
    /\ \E a \in EditStrings, b \in EditStrings :
          /\ entry' = "_levenshtein"
          /\ args' = [a |-> a, b |-> b]
          /\ env' = <<>>
          /\ ret' = [raised |-> FALSE, value |-> _levenshtein(a, b)]
          /\ calls' = NoCalls
          /\ UNCHANGED routeVars

WordLevelLevenshtein ==
    /\ entry = "none"
    /\ \E a \in EditTokens, b \in EditTokens :
          /\ entry' = "_word_level_levenshtein"
          /\ args' = [a |-> a, b |-> b]
          /\ env' = <<>>
          /\ ret' = [raised |-> FALSE, value |-> _word_level_levenshtein(a, b)]
          /\ calls' = NoCalls
          /\ UNCHANGED routeVars

ComputeParsingF1 ==
    /\ entry = "none"
    /\ \E p \in ComparedPrescriptions, t \in ComparedPrescriptions :
          /\ entry' = "compute_parsing_f1"
          /\ args' = [predicted |-> p, ground_truth |-> t]
          /\ env' = <<>>
          /\ ret' = [raised |-> FALSE, value |-> compute_parsing_f1(p, t)]
          /\ calls' = NoCalls
          /\ UNCHANGED routeVars

FuzzyMatch ==
    /\ entry = "none"
    /\ \E p \in FuzzyPairs, t \in Thresholds :
          /\ entry' = "_fuzzy_match"
          /\ args' = [candidate |-> p[1], reference |-> p[2], threshold |-> t]
          /\ env' = <<>>
          /\ ret' = [raised |-> FALSE, value |-> _fuzzy_match(p[1], p[2], t)]
          /\ calls' = NoCalls
          /\ UNCHANGED routeVars

\* the records whose coverage evaluation.py computes: id and label each
\* None or present, and an id that is present and empty
EvaluatedRecords ==
    GroundingRecords
    \cup { [drug |-> "Aspirin", rxnorm_id |-> SomeId(""), dailymed_info |-> l] :
             l \in {NoInfo, SomeInfo(SampleSpl)} }

EvaluateGroundingCoverage ==
    /\ entry = "none"
    /\ \E a \in SeqsUpTo(EvaluatedRecords, MaxRecords) :
          /\ entry' = "compute_grounding_coverage"
          /\ args' = [api_results |-> a]
          /\ env' = <<>>
          /\ ret' = [raised |-> FALSE, value |-> compute_grounding_coverage(a)]
          /\ calls' = NoCalls
          /\ UNCHANGED routeVars

NextUnits ==
    \/ FetchRxnormId
    \/ FetchDailymedSummary
    \/ FetchDrugClasses
    \/ FetchOpenfdaInteractions
    \/ ScoreDiagnosis
    \/ ScoreMedications
    \/ GroundingCoverage
    \/ Normalise
    \/ Levenshtein
    \/ WordLevelLevenshtein
    \/ ComputeParsingF1
    \/ FuzzyMatch
    \/ EvaluateGroundingCoverage

SpecUnits == Init /\ [][NextUnits]_vars

-----------------------------------------------------------------------------
(* session_store.py, api_answer_chain.py and the two routes                *)

MaxSessions == 2

MaxRequests == 3

\* None, for an argument or a lookup that has no value
None == [none |-> TRUE]

\* save_session: the store with the entry of session_id set; api_results
\* is an optional list, stored as [] when None
save_session(store, session_id, prescription_json, interactions, confidence, api_results) ==
    [s \in DOMAIN store \cup {session_id} |->
        IF s = session_id
        THEN [prescription |-> prescription_json,
              interactions |-> interactions,
              confidence |-> confidence,
              api_results |-> IF api_results.none THEN <<>>
                              ELSE api_results.items]
        ELSE store[s]]

\* get_session: SESSION_STORE.get(session_id)
get_session(store, session_id) ==
    IF session_id \in DOMAIN store
    THEN [none |-> FALSE, session |-> store[session_id]]
    ELSE None

\* uuid4 handing out one id again and again
uuid4_Reused(store) == 1

\* str(uuid.uuid4()): an id no session has yet (ids are numbered)
uuid4(store) == Cardinality(DOMAIN store) + 1

\* how often name occurs in a list of names
Occurrences(names, name) ==
    Cardinality({i \in 1..Len(names) : names[i] = name})

\* the loop of generate_api_answer (lines 48-58) from medication i on;
\* world gives the exchange each lookup of a name runs into, acc.rxnorm and
\* acc.dailymed list the names looked up so far.  A lookup that raises ends
\* the loop.
RECURSIVE ContextFrom(_, _, _, _)
ContextFrom(medications, world, i, acc) ==
    IF i > Len(medications) THEN acc
    ELSE
      LET name == medications[i].name
          rxr == fetch_rxnorm_id(name, world.rxnorm[name])
          dmr == fetch_dailymed_summary(name, world.dailymed[name])
      IN  IF rxr.raised
          THEN [acc EXCEPT !.raised = TRUE, !.rxnorm = Append(@, name)]
          ELSE IF dmr.raised
          THEN [acc EXCEPT !.raised = TRUE, !.rxnorm = Append(@, name),
                           !.dailymed = Append(@, name)]
          ELSE ContextFrom(medications, world, i + 1,
                 [raised |-> FALSE,
                  api_context |-> Append(acc.api_context,
                     [drug |-> name, rxnorm_id |-> rxr.value,
                      dailymed_info |-> dmr.value]),
                  rxnorm |-> Append(acc.rxnorm, name),
                  dailymed |-> Append(acc.dailymed, name)])

\* generate_api_answer: iterating over medications None raises TypeError;
\* the lookups are made anew for every medication; llmOut is the outcome of
\* llm.invoke, its content the answer
generate_api_answer(prescription_json, world, llmOut) ==
    IF prescription_json.medications.none
    THEN [raised |-> TRUE, error |-> "'NoneType' object is not iterable",
          content |-> NoneStr, api_context |-> <<>>,
          rxnorm |-> <<>>, dailymed |-> <<>>, llm |-> 0]
    ELSE
      LET context == ContextFrom(prescription_json.medications.items, world, 1,
                        [raised |-> FALSE, api_context |-> <<>>,
                         rxnorm |-> <<>>, dailymed |-> <<>>])
      IN  IF context.raised
          THEN [raised |-> TRUE, error |-> "lookup failed",
                content |-> NoneStr, api_context |-> context.api_context,
                rxnorm |-> context.rxnorm, dailymed |-> context.dailymed,
                llm |-> 0]
          ELSE IF llmOut.raised
          THEN [raised |-> TRUE, error |-> "llm failed",
                content |-> NoneStr, api_context |-> context.api_context,
                rxnorm |-> context.rxnorm, dailymed |-> context.dailymed,
                llm |-> 1]
          ELSE [raised |-> FALSE, error |-> "",
                content |-> llmOut.content, api_context |-> context.api_context,
                rxnorm |-> context.rxnorm, dailymed |-> context.dailymed,
                llm |-> 1]

\* JSONResponse(status_code=..., content={"error": ...})
ErrorResponse(status, error) ==
    [raised |-> FALSE, status |-> status, body |-> [error |-> error]]

\* a returned dict, served with status 200
OkResponse(body) == [raised |-> FALSE, status |-> 200, body |-> body]

\* what the services queried by check_interactions answer during an upload
UploadClassWorld == [n \in MedNames |-> Http(404, NotJson)]

UploadFdaWorld == [n \in MedNames |-> Http(500, NotJson)]

\* the exchanges the lookups of compute_confidence run into, by position
ExchangesOf(structured_json, byName) ==
    IF structured_json.medications.none THEN <<>>
    ELSE [i \in 1..Len(structured_json.medications.items) |->
             byName[structured_json.medications.items[i].name]]

\* the names compute_confidence made `made` lookups for, in order
NamesLookedUp(structured_json, made) ==
    [i \in 1..made |-> structured_json.medications.items[i].name]

\* upload_prescription with the session saved before anything is scored
upload_prescription_SaveFirst(store, written, ocr, parsed, world, llmOut) ==
    IF ~written
    THEN [response |-> ErrorResponse(500, "cannot write file"), store |-> store,
          calls |-> NoCalls, rxnorm |-> <<>>, dailymed |-> <<>>]
    ELSE IF ocr.raised
    THEN [response |-> ErrorResponse(500, "cannot identify image file"),
          store |-> store, calls |-> NoCalls, rxnorm |-> <<>>, dailymed |-> <<>>]
    ELSE IF parsed.raised
    THEN [response |-> ErrorResponse(500, "cannot parse prescription"),
          store |-> store, calls |-> [NoCalls EXCEPT !.llm = 1],
          rxnorm |-> <<>>, dailymed |-> <<>>]
    ELSE
      LET structured_json == parsed.value
          session_id == uuid4(store)
          early == save_session(store, session_id, structured_json, None,
                                None, NoneList)
          scored == compute_confidence(structured_json,
                       ExchangesOf(structured_json, world.rxnorm),
                       ExchangesOf(structured_json, world.dailymed))
          checked == check_interactions(structured_json.medications,
                        UploadClassWorld, UploadFdaWorld, llmOut)
          rxnorm == NamesLookedUp(structured_json, scored.rxnorm_calls)
          dailymed == NamesLookedUp(structured_json, scored.dailymed_calls)
      IN  IF scored.raised
          THEN [response |-> ErrorResponse(500, "lookup failed"),
                store |-> early,
                calls |-> [NoCalls EXCEPT !.llm = 1,
                                          !.rxnorm = scored.rxnorm_calls,
                                          !.dailymed = scored.dailymed_calls],
                rxnorm |-> rxnorm, dailymed |-> dailymed]
          ELSE [response |->
                   OkResponse([session_id |-> session_id,
                               prescription_data |-> structured_json,
                               interactions |-> checked.report,
                               confidence |-> scored.confidence]),
                store |-> save_session(early, session_id, structured_json,
                             checked.report, scored.confidence,
                             List(scored.api_results)),
                calls |-> [checked.calls EXCEPT
                              !.llm = @ + 1,
                              !.rxnorm = scored.rxnorm_calls,
                              !.dailymed = scored.dailymed_calls],
                rxnorm |-> rxnorm, dailymed |-> dailymed]

\* upload_prescription: written is the outcome of saving the file, ocr of
\* extract_text_from_image, parsed of parse_prescription, world the
\* exchanges of the RxNorm and DailyMed lookups by name, llmOut the outcome
\* of the interaction checker's llm.invoke.  Every exception is answered
\* with status 500.
upload_prescription(store, written, ocr, parsed, world, llmOut) ==
    IF ~written
    THEN [response |-> ErrorResponse(500, "cannot write file"), store |-> store,
          calls |-> NoCalls, rxnorm |-> <<>>, dailymed |-> <<>>]
    ELSE IF ocr.raised
    THEN [response |-> ErrorResponse(500, "cannot identify image file"),
          store |-> store, calls |-> NoCalls, rxnorm |-> <<>>, dailymed |-> <<>>]
    ELSE IF parsed.raised
    THEN [response |-> ErrorResponse(500, "cannot parse prescription"),
          store |-> store, calls |-> [NoCalls EXCEPT !.llm = 1],
          rxnorm |-> <<>>, dailymed |-> <<>>]
    ELSE
      LET structured_json == parsed.value
          scored == compute_confidence(structured_json,
                       ExchangesOf(structured_json, world.rxnorm),
                       ExchangesOf(structured_json, world.dailymed))
          checked == check_interactions(structured_json.medications,
                        UploadClassWorld, UploadFdaWorld, llmOut)
          session_id == uuid4(store)
          rxnorm == NamesLookedUp(structured_json, scored.rxnorm_calls)
          dailymed == NamesLookedUp(structured_json, scored.dailymed_calls)
      IN  IF scored.raised
          THEN [response |-> ErrorResponse(500, "lookup failed"),
                store |-> store,
                calls |-> [NoCalls EXCEPT !.llm = 1,
                                          !.rxnorm = scored.rxnorm_calls,
                                          !.dailymed = scored.dailymed_calls],
                rxnorm |-> rxnorm, dailymed |-> dailymed]
          ELSE [response |->
                   OkResponse([session_id |-> session_id,
                               prescription_data |-> structured_json,
                               interactions |-> checked.report,
                               confidence |-> scored.confidence]),
                store |-> save_session(store, session_id, structured_json,
                             checked.report, scored.confidence,
                             List(scored.api_results)),
                calls |-> [checked.calls EXCEPT
                              !.llm = @ + 1,
                              !.rxnorm = scored.rxnorm_calls,
                              !.dailymed = scored.dailymed_calls],
                rxnorm |-> rxnorm, dailymed |-> dailymed]

\* the functions ask_prescription may invoke, none invoked
NoInvocations == [generate_api_answer |-> 0, detect_hallucinations |-> 0]

\* the events of one request, in the order they happen
Called(f) == [event |-> "call", of |-> f]

Returned(f) == [event |-> "return", of |-> f]

Raised(f) == [event |-> "raise", of |-> f]

\* AnswerFor with an answer that is withheld when the detector's verdict is
\* a failure
AnswerFor_WithheldOnFailedCheck(session, world, answerLlm, detectLlm) ==
    LET prescription_json == session.prescription
        api_results == session.api_results
        confidence == session.confidence
        generated == generate_api_answer(prescription_json, world, answerLlm)
        detected == detect_hallucinations(generated.content, prescription_json,
                                          api_results, detectLlm)
    IN  IF generated.raised
        THEN [response |-> ErrorResponse(500, generated.error),
              calls |-> [NoCalls EXCEPT !.llm = generated.llm,
                                        !.rxnorm = Len(generated.rxnorm),
                                        !.dailymed = Len(generated.dailymed)],
              invoked |-> [NoInvocations EXCEPT !.generate_api_answer = 1],
              trace |-> <<Called("generate_api_answer"),
                          Raised("generate_api_answer")>>,
              rxnorm |-> generated.rxnorm, dailymed |-> generated.dailymed]
        ELSE [response |->
                 OkResponse([answer |->
                                IF detected.report.hallucination_count < 0
                                THEN NoneStr
                                ELSE generated.content,
                             hallucination_check |-> detected.report,
                             confidence |-> confidence]),
              calls |-> [NoCalls EXCEPT
                            !.llm = generated.llm + detected.calls.llm,
                            !.rxnorm = Len(generated.rxnorm),
                            !.dailymed = Len(generated.dailymed)],
              invoked |-> [generate_api_answer |-> 1,
                           detect_hallucinations |-> 1],
              trace |-> <<Called("generate_api_answer"),
                          Returned("generate_api_answer"),
                          Called("detect_hallucinations"),
                          Returned("detect_hallucinations")>>,
              rxnorm |-> generated.rxnorm, dailymed |-> generated.dailymed]

\* the part of ask_prescription after the session lookup (lines 24-41);
\* trace lists the calls it makes, in order
AnswerFor(session, world, answerLlm, detectLlm) ==
    LET prescription_json == session.prescription
        api_results == session.api_results
        confidence == session.confidence
        generated == generate_api_answer(prescription_json, world, answerLlm)
        detected == detect_hallucinations(generated.content, prescription_json,
                                          api_results, detectLlm)
    IN  IF generated.raised
        THEN [response |-> ErrorResponse(500, generated.error),
              calls |-> [NoCalls EXCEPT !.llm = generated.llm,
                                        !.rxnorm = Len(generated.rxnorm),
                                        !.dailymed = Len(generated.dailymed)],
              invoked |-> [NoInvocations EXCEPT !.generate_api_answer = 1],
              trace |-> <<Called("generate_api_answer"),
                          Raised("generate_api_answer")>>,
              rxnorm |-> generated.rxnorm, dailymed |-> generated.dailymed]
        ELSE [response |->
                 OkResponse([answer |-> generated.content,
                             hallucination_check |-> detected.report,
                             confidence |-> confidence]),
              calls |-> [NoCalls EXCEPT
                            !.llm = generated.llm + detected.calls.llm,
                            !.rxnorm = Len(generated.rxnorm),
                            !.dailymed = Len(generated.dailymed)],
              invoked |-> [generate_api_answer |-> 1,
                           detect_hallucinations |-> 1],
              trace |-> <<Called("generate_api_answer"),
                          Returned("generate_api_answer"),
                          Called("detect_hallucinations"),
                          Returned("detect_hallucinations")>>,
              rxnorm |-> generated.rxnorm, dailymed |-> generated.dailymed]

\* ask_prescription without the check of the session: subscripting None
\* raises TypeError, answered with status 500
ask_prescription_NoSessionCheck(store, session_id, world, answerLlm, detectLlm) ==
    LET session == get_session(store, session_id)
    IN  IF session.none
        THEN [response |-> ErrorResponse(500, "'NoneType' object is not subscriptable"),
              calls |-> NoCalls, invoked |-> NoInvocations, trace |-> <<>>,
              rxnorm |-> <<>>, dailymed |-> <<>>]
        ELSE AnswerFor(session.session, world, answerLlm, detectLlm)

\* ask_prescription: world gives the exchanges of the lookups made while
\* answering, answerLlm and detectLlm the outcomes of the two llm.invoke
ask_prescription(store, session_id, world, answerLlm, detectLlm) ==
    LET session == get_session(store, session_id)
    IN  IF session.none
        THEN [response |-> ErrorResponse(404, "Invalid session_id"),
              calls |-> NoCalls, invoked |-> NoInvocations, trace |-> <<>>,
              rxnorm |-> <<>>, dailymed |-> <<>>]
        ELSE AnswerFor(session.session, world, answerLlm, detectLlm)

-----------------------------------------------------------------------------
(* Inputs of the routes                                                    *)

\* the drug names of the prescriptions uploaded
SessionNames == {Roster[1], Roster[2]}

Raises == [raised |-> TRUE]

Returns(value) == [raised |-> FALSE, value |-> value]

\* what parse_prescription returns: no medication list, an empty one, one
\* medication, two
UploadedPrescriptions ==
    { [diagnosis |-> Str(<<"M","B","C">>), medications |-> m] :
        m \in {NoneList, List(<<>>), List(RosterMeds(1)), List(RosterMeds(2))} }

ResolvedRx == Http(200, [json |-> TRUE, hasIdGroup |-> TRUE,
                         hasRxnormId |-> TRUE, rxnormId |-> <<"11289">>])

UnknownRx == Http(200, [json |-> TRUE, hasIdGroup |-> TRUE,
                        hasRxnormId |-> FALSE, rxnormId |-> <<>>])

ResolvedDm == Http(200, [json |-> TRUE, hasData |-> TRUE, data |-> <<SampleSpl>>])

UnknownDm == Http(200, [json |-> TRUE, hasData |-> TRUE, data |-> <<>>])

\* what RxNorm and DailyMed answer for each name while one request is
\* served: every name known, only the first known, RxNorm unreachable
LookupWorlds ==
    { [rxnorm |-> [n \in SessionNames |-> ResolvedRx],
       dailymed |-> [n \in SessionNames |-> ResolvedDm]],
      [rxnorm |-> [n \in SessionNames |->
                      IF n = Roster[1] THEN ResolvedRx ELSE UnknownRx],
       dailymed |-> [n \in SessionNames |->
                      IF n = Roster[1] THEN ResolvedDm ELSE UnknownDm]],
      [rxnorm |-> [n \in SessionNames |-> NetError],
       dailymed |-> [n \in SessionNames |-> ResolvedDm]] }

\* a world for the requests that never reach a lookup
AnyWorld == CHOOSE w \in LookupWorlds : TRUE

UploadLlmOutcomes ==
    {LlmRaises, LlmReturns(Bare(Json(SampleInteractionDoc)))}

\* the uploads: the file cannot be written, is not an image, cannot be
\* parsed, or is parsed to a prescription
Uploads ==
    { [written |-> FALSE, ocr |-> Raises, parsed |-> Raises,
       world |-> AnyWorld, llm |-> LlmRaises],
      [written |-> TRUE, ocr |-> Raises, parsed |-> Raises,
       world |-> AnyWorld, llm |-> LlmRaises],
      [written |-> TRUE, ocr |-> Returns("Rx text"), parsed |-> Raises,
       world |-> AnyWorld, llm |-> LlmRaises] }
    \cup { [written |-> TRUE, ocr |-> Returns("Rx text"), parsed |-> Returns(p),
            world |-> w, llm |-> l] :
             p \in UploadedPrescriptions, w \in LookupWorlds,
             l \in UploadLlmOutcomes }

\* outcomes of the answer chain's llm.invoke
AnswerLlmOutcomes ==
    {LlmRaises, LlmReturns(Str(<<"T","a","k","e"," ","i","t">>))}

\* outcomes of the detector's llm.invoke
DetectLlmOutcomes ==
    {LlmRaises, LlmReturns(Bare(Json(SampleHallucinationDoc)))}

\* the session ids asked about: 0 is never issued
SessionIds == 0..MaxSessions

NoLookups == [n \in SessionNames |-> [rxnorm |-> 0, dailymed |-> 0]]

\* the lookup counts c with the lookups of one request added
Counted(c, rxnorm, dailymed) ==
    [n \in SessionNames |->
        [rxnorm |-> c[n].rxnorm + Occurrences(rxnorm, n),
         dailymed |-> c[n].dailymed + Occurrences(dailymed, n)]]

-----------------------------------------------------------------------------
(* The routes: requests served one after another on one store.             *)

UploadPrescription ==
    /\ served < MaxRequests
    /\ Cardinality(DOMAIN SESSION_STORE) < MaxSessions
    /\ \E u \in Uploads :
          \E r \in {upload_prescription(SESSION_STORE, u.written, u.ocr,
                                        u.parsed, u.world, u.llm)} :
              /\ entry' = "upload_prescription"
              /\ args' = [written |-> u.written]
              /\ env' = [ocr |-> u.ocr, parsed |-> u.parsed,
                         world |-> u.world, llm |-> u.llm]
              /\ ret' = r.response
              /\ calls' = r.calls
              /\ SESSION_STORE' = r.store
              /\ lookups' =
                    IF r.response.status = 200
                    THEN [s \in DOMAIN r.store |->
                             IF s \in DOMAIN lookups THEN lookups[s]
                             ELSE Counted(NoLookups, r.rxnorm, r.dailymed)]
                    ELSE lookups
              /\ served' = served + 1

AskPrescription ==
    /\ served < MaxRequests
    /\ \E id \in SessionIds, w \in LookupWorlds,
          a \in AnswerLlmOutcomes, d \in DetectLlmOutcomes :
          \E r \in {ask_prescription(SESSION_STORE, id, w, a, d)} :
              /\ entry' = "ask_prescription"
              /\ args' = [session_id |-> id]
              /\ env' = [world |-> w, answer_llm |-> a, detect_llm |-> d]
              /\ ret' = r.response
              /\ calls' = [generate_api_answer |-> r.invoked.generate_api_answer,
                           detect_hallucinations |-> r.invoked.detect_hallucinations,
                           rxnorm |-> r.calls.rxnorm,
                           dailymed |-> r.calls.dailymed,
                           drug_classes |-> 0, openfda |-> 0,
                           llm |-> r.calls.llm,
                           trace |-> r.trace]
              /\ SESSION_STORE' = SESSION_STORE
              /\ lookups' =
                    [s \in DOMAIN lookups |->
                        IF s = id
                        THEN Counted(lookups[s], r.rxnorm, r.dailymed)
                        ELSE lookups[s]]
              /\ served' = served + 1

NextSession ==
    \/ UploadPrescription
    \/ AskPrescription

SpecSession == Init /\ [][NextSession]_vars

-----------------------------------------------------------------------------
(* Properties                                                              *)

\* the ordering Low < Medium < High
LevelRank(l) == CASE l = "Low" -> 0 [] l = "Medium" -> 1 [] l = "High" -> 2

\* the non-empty names among the medications passed to check_interactions
GivenNames ==
    IF args.medications.none THEN {}
    ELSE {args.medications.items[i].name :
             i \in 1..Len(args.medications.items)} \ {""}

\* how many of the medications passed to check_interactions have a name
NamedCount ==
    IF args.medications.none THEN 0
    ELSE Cardinality({i \in 1..Len(args.medications.items) :
                         args.medications.items[i].name # ""})

\* how many medications were passed to check_interactions
GivenCount ==
    IF args.medications.none THEN 0 ELSE Len(args.medications.items)

\* the answer passed to detect_hallucinations has a visible character
AnswerHasText ==
    /\ ~args.answer.none
    /\ \E i \in 1..Len(args.answer.text) : args.answer.text[i] \notin Whitespace

\* what the code parsed out of the LLM's text
LlmParsed == json_loads(StripFences(env.llm.content))

\* the LLM answered with text that parses to a JSON object
LlmGaveObject ==
    /\ ~env.llm.raised
    /\ LlmParsed.ok
    /\ LlmParsed.doc.kind = "object"

\* C1: compute_confidence, check_interactions and detect_hallucinations
\* return a report whatever their collaborators do; none lets an exception
\* reach its caller.
C1_NoEntryPointRaises ==
    entry # "none" => ~ret.raised

\* C2: in every report of compute_confidence, overall_confidence is the
\* lowest level (Low < Medium < High) among diagnosis_confidence and the
\* normalization levels of medication_scores.
C2_OverallIsLowestLevel ==
    (entry = "compute_confidence" /\ ~ret.raised) =>
        LET c == ret.report
            levels == {c.diagnosis_confidence}
                      \cup {c.medication_scores[i].normalization :
                               i \in 1..Len(c.medication_scores)}
        IN  /\ c.overall_confidence \in levels
            /\ \A l \in levels : LevelRank(c.overall_confidence) <= LevelRank(l)

\* C2 witness: diagnosis High with medications High, Medium, Low gives
\* overall Low.
C2_Witness ==
    /\ entry = "compute_confidence"
    /\ ~ret.raised
    /\ ret.report.diagnosis_confidence = "High"
    /\ Len(ret.report.medication_scores) = 3
    /\ ret.report.medication_scores[1].normalization = "High"
    /\ ret.report.medication_scores[2].normalization = "Medium"
    /\ ret.report.medication_scores[3].normalization = "Low"
    /\ ret.report.overall_confidence = "Low"

\* C3: with n >= 2 named medications, total_checked is n(n-1)/2 on every
\* return path of check_interactions.
C3_TotalCheckedIsAllPairs ==
    (entry = "check_interactions" /\ NamedCount >= 2) =>
        2 * ret.report.total_checked = NamedCount * (NamedCount - 1)

\* C4: detect_hallucinations reports hallucination_count = -1 only when
\* the detector failed; when the LLM's answer parsed to a JSON object whose
\* fields the code could read, the count is >= 0.
C4_MinusOneOnlyOnDetectorFailure ==
    ( /\ entry = "detect_hallucinations"
      /\ AnswerHasText
      /\ LlmGaveObject
      /\ LlmParsed.doc.hallucinations.tag # "null" ) =>
        ret.report.hallucination_count >= 0

\* C5: for a non-empty answer, when the LLM call raises or its output does
\* not parse to a JSON object, detect_hallucinations returns no
\* hallucinations, count -1 and is_grounded false, and does not raise.
C5_FailureGivesSentinel ==
    (entry = "detect_hallucinations" /\ AnswerHasText /\ ~LlmGaveObject) =>
        /\ ~ret.raised
        /\ ret.report.hallucinations = <<>>
        /\ ret.report.hallucination_count = -1
        /\ ret.report.is_grounded = FALSE

\* C5 witness: the LLM answered a non-empty answer's check with text that
\* is not JSON, and the sentinel came back.
C5_Witness ==
    /\ entry = "detect_hallucinations"
    /\ AnswerHasText
    /\ ~env.llm.raised
    /\ ~LlmParsed.ok
    /\ ret.report.hallucination_count = -1
    /\ ~ret.report.is_grounded

\* C6: with None, no medication, one medication or fewer than two named
\* ones, check_interactions returns no interactions, interactions_found 0
\* and total_checked 0 or the number of (named) medications given, and
\* invokes no lookup and no LLM.
C6_TooFewMedications ==
    (entry = "check_interactions" /\ NamedCount < 2) =>
        /\ ret.report.interactions = <<>>
        /\ ret.report.interactions_found = 0
        /\ ret.report.total_checked \in {0, GivenCount, NamedCount}
        /\ calls = NoCalls

\* C6 witness: two medications of which one is named.
C6_Witness ==
    /\ entry = "check_interactions"
    /\ GivenCount = 2
    /\ NamedCount = 1
    /\ ret.report.total_checked = 1
    /\ calls.llm = 0

\* C7: for an answer that is None, empty or only whitespace,
\* detect_hallucinations returns no hallucinations, count 0 and
\* is_grounded true, and does not invoke the LLM.
C7_EmptyAnswerFastPath ==
    (entry = "detect_hallucinations" /\ ~AnswerHasText) =>
        /\ ret.report.hallucinations = <<>>
        /\ ret.report.hallucination_count = 0
        /\ ret.report.is_grounded = TRUE
        /\ calls.llm = 0

\* C7 witness: a whitespace-only answer.
C7_Witness ==
    /\ entry = "detect_hallucinations"
    /\ ~args.answer.none
    /\ args.answer.text # <<>>
    /\ ~AnswerHasText
    /\ ret.report.hallucination_count = 0
    /\ calls.llm = 0

\* C8: the interactions of a check_interactions report are exactly the list
\* the LLM returned under "interactions", and empty when it returned none,
\* when fewer than two medications were named or when anything failed.
C8_InteractionsAreTheLlmsList ==
    entry = "check_interactions" =>
        IF /\ NamedCount >= 2
           /\ LlmGaveObject
           /\ LlmParsed.doc.interactions.tag = "list"
        THEN ret.report.interactions = LlmParsed.doc.interactions.items
        ELSE ret.report.interactions = <<>>

\* C8 witness: the LLM reported two interactions for two or more named
\* medications, and the report holds exactly those two.
C8_Witness ==
    /\ entry = "check_interactions"
    /\ NamedCount >= 2
    /\ LlmGaveObject
    /\ LlmParsed.doc.interactions.tag = "list"
    /\ Len(LlmParsed.doc.interactions.items) = 2
    /\ ret.report.interactions = LlmParsed.doc.interactions.items

\* C9: in every check_interactions report the number of flagged
\* interactions is at most total_checked.
C9_FlaggedAtMostChecked ==
    entry = "check_interactions" =>
        /\ ret.report.interactions_found <= ret.report.total_checked
        /\ Len(ret.report.interactions) <= ret.report.total_checked

\* C10: every drug_pair of a check_interactions report is a pair of two
\* names of the medications passed to the call.
C10_PairsAreGivenNames ==
    entry = "check_interactions" =>
        \A i \in 1..Len(ret.report.interactions) :
            /\ Len(ret.report.interactions[i].drug_pair) = 2
            /\ ret.report.interactions[i].drug_pair[1] \in GivenNames
            /\ ret.report.interactions[i].drug_pair[2] \in GivenNames

\* C11: total_checked is C(d,2) for the d distinct non-empty medication
\* names of the input: 0 when d <= 1, a repeated name counted once.
C11_TotalCheckedCountsDistinctNames ==
    entry = "check_interactions" =>
        2 * ret.report.total_checked
            = Cardinality(GivenNames) * (Cardinality(GivenNames) - 1)

\* C12: every check_interactions report, on every return path, carries the
\* disclaimer "Interaction detection is advisory only. Do not treat as
\* definitive medical advice."
C12_SameDisclaimerEverywhere ==
    entry = "check_interactions" =>
        ret.report.disclaimer =
            "Interaction detection is advisory only. Do not treat as definitive medical advice."

\* the names of the four lookups of medical_api.py
LookupNames ==
    {"fetch_rxnorm_id", "fetch_dailymed_summary", "fetch_drug_classes",
     "fetch_openfda_interactions"}

\* the payload of the exchange lacks the field the lookup reads, or the
\* field is empty
PayloadIncomplete ==
    CASE entry = "fetch_rxnorm_id" ->
            \/ ~env.http.body.hasIdGroup
            \/ ~env.http.body.hasRxnormId
            \/ env.http.body.rxnormId = <<>>
      [] entry = "fetch_dailymed_summary" ->
            ~env.http.body.hasData \/ env.http.body.data = <<>>
      [] entry = "fetch_drug_classes" ->
            ~env.http.body.wellFormed \/ env.http.body.infos = <<>>
      [] entry = "fetch_openfda_interactions" ->
            ~env.http.body.wellFormed \/ env.http.body.products = <<>>

\* the exchange of a lookup failed: no answer, a non-2xx status, or a
\* malformed payload
LookupFailed ==
    \/ env.http.net = "error"
    \/ env.http.status \notin 200..299
    \/ ~env.http.body.json
    \/ PayloadIncomplete

\* the lookup returned None (the id and label lookups) or [] (the others)
ReturnedNothing ==
    CASE entry = "fetch_rxnorm_id" -> ret.value.none
      [] entry = "fetch_dailymed_summary" -> ret.value.none
      [] entry = "fetch_drug_classes" -> ret.value = <<>>
      [] entry = "fetch_openfda_interactions" -> ret.value = <<>>

\* C13: each of the four lookups returns None or an empty list, and never
\* raises, on a non-2xx status, on a timeout or connection failure, and on a
\* malformed payload (not JSON, or expected fields missing or empty).
C13_FailedLookupReturnsNothing ==
    (entry \in LookupNames /\ LookupFailed) =>
        (~ret.raised /\ ReturnedNothing)

\* the diagnosis passed to _score_diagnosis has a visible character
DiagnosisHasText ==
    /\ ~args.diagnosis.none
    /\ \E i \in 1..Len(args.diagnosis.text) :
          args.diagnosis.text[i] \notin Whitespace

\* the alphabetic tokens of the diagnosis passed to _score_diagnosis
DiagnosisTokens == FindAllAlpha(args.diagnosis.text, <<>>)

\* the diagnosis reads as an abbreviation: at most two alphabetic tokens,
\* each all-uppercase or a known abbreviation
ReadsAsAbbreviation ==
    /\ Len(DiagnosisTokens) <= 2
    /\ \A i \in 1..Len(DiagnosisTokens) :
          \/ IsUpper(DiagnosisTokens[i])
          \/ Lower(DiagnosisTokens[i]) \in KNOWN_ABBREVIATIONS

\* C15: _score_diagnosis gives Low for a missing, empty or whitespace-only
\* diagnosis; otherwise Medium when the text has at most two alphabetic
\* tokens, each all-uppercase or a known abbreviation; otherwise High when
\* the trimmed text is longer than 5 characters; otherwise Medium.  So ""
\* gives Low, "MBC" and "DM" Medium, "Metastatic Breast Cancer" High, and a
\* diagnosis with text never scores Low.
C15_DiagnosisLevelTable ==
    entry = "_score_diagnosis" =>
        /\ ret.value.level =
              IF ~DiagnosisHasText THEN "Low"
              ELSE IF ReadsAsAbbreviation THEN "Medium"
              ELSE IF Len(Strip(args.diagnosis.text)) > 5 THEN "High"
              ELSE "Medium"
        /\ (args.diagnosis = Str(<<>>) => ret.value.level = "Low")
        /\ (args.diagnosis \in {Str(<<"M","B","C">>), Str(<<"D","M">>)}
               => ret.value.level = "Medium")
        /\ (args.diagnosis = Str(<<"M","e","t","a","s","t","a","t","i","c"," ","B","r","e","a","s","t"," ","C","a","n","c","e","r">>)
               => ret.value.level = "High")
        /\ (DiagnosisHasText => ret.value.level # "Low")

\* a diagnosis of exactly five characters that is no abbreviation was
\* scored Medium
C15_Witness ==
    /\ entry = "_score_diagnosis"
    /\ DiagnosisHasText
    /\ ~ReadsAsAbbreviation
    /\ Len(Strip(args.diagnosis.text)) = 5
    /\ ret.value.level = "Medium"

\* the RxNorm exchange of medication i carried an id
RxResolved(i) ==
    /\ env.rxnorm[i].net = "ok"
    /\ env.rxnorm[i].status = 200
    /\ env.rxnorm[i].body.json
    /\ env.rxnorm[i].body.hasIdGroup
    /\ env.rxnorm[i].body.hasRxnormId
    /\ env.rxnorm[i].body.rxnormId # <<>>

\* the DailyMed exchange of medication i carried a label
DmResolved(i) ==
    /\ env.dailymed[i].net = "ok"
    /\ env.dailymed[i].status = 200
    /\ env.dailymed[i].body.json
    /\ env.dailymed[i].body.hasData
    /\ env.dailymed[i].body.data # <<>>

\* the scores returned are one per medication, in order, each with the
\* level and the reason its two lookups call for
ScoresFollowLookups ==
    /\ Len(ret.scores) = Len(args.medications)
    /\ \A i \in 1..Len(ret.scores) :
          /\ ret.scores[i].name = args.medications[i].name
          /\ ret.scores[i].normalization =
                IF RxResolved(i) /\ DmResolved(i) THEN "High"
                ELSE IF RxResolved(i) \/ DmResolved(i) THEN "Medium"
                ELSE "Low"
          /\ ret.scores[i].reason =
                IF RxResolved(i) /\ DmResolved(i)
                THEN "Matched in RxNorm and DailyMed"
                ELSE IF RxResolved(i)
                THEN "Partial match (RxNorm: yes, DailyMed: no)"
                ELSE IF DmResolved(i)
                THEN "Partial match (RxNorm: no, DailyMed: yes)"
                ELSE "No match in RxNorm or DailyMed"

\* whenever _score_medications returns, its scores follow the lookups
ReturnedScoresFollowLookups ==
    (entry = "_score_medications" /\ ~ret.raised) => ScoresFollowLookups

\* C16: _score_medications produces one score per input medication, in
\* input order, with level High when both the RxNorm id and the DailyMed
\* label resolved, Medium when exactly one did and Low when neither did, and
\* with a reason naming which of the two resolved.
C16_OneScorePerMedication ==
    entry = "_score_medications" => (~ret.raised /\ ScoresFollowLookups)

\* how many of the records passed to _compute_grounding_coverage have an
\* RxNorm id or a DailyMed label
GroundedCount ==
    Cardinality({i \in 1..Len(args.api_results) :
        \/ ~args.api_results[i].rxnorm_id.none
        \/ ~args.api_results[i].dailymed_info.none})

\* C17 as stated: the coverage is exactly 100 x grounded / records (the
\* value is held in tenths of a percent), between 0 and 100, 0.0 for an
\* empty list and 100.0 when every record is grounded.
C17_CoverageIsExactRatio ==
    entry = "_compute_grounding_coverage" =>
        /\ ret.value \in 0..1000
        /\ args.api_results = <<>> => ret.value = 0
        /\ args.api_results # <<>> =>
              ret.value * Len(args.api_results) = 1000 * GroundedCount
        /\ (args.api_results # <<>> /\ GroundedCount = Len(args.api_results))
              => ret.value = 1000

\* C17 amended: the coverage is 100 x grounded / records rounded to one
\* decimal place (within half a tenth of the ratio), between 0 and 100, 0.0
\* for an empty list and 100.0 when every record is grounded.
C17_CoverageIsRoundedRatio ==
    entry = "_compute_grounding_coverage" =>
        /\ ret.value \in 0..1000
        /\ args.api_results = <<>> => ret.value = 0
        /\ args.api_results # <<>> =>
              LET n == Len(args.api_results)
                  d == ret.value * n - 1000 * GroundedCount
              IN  2 * d <= n /\ 2 * (0 - d) <= n
        /\ (args.api_results # <<>> /\ GroundedCount = Len(args.api_results))
              => ret.value = 1000

\* one record of three grounded: 33.3, where the ratio is 33.33...
C17_Witness ==
    /\ entry = "_compute_grounding_coverage"
    /\ Len(args.api_results) = 3
    /\ GroundedCount = 1
    /\ ret.value = 333

\* C20: normalise is idempotent: normalising an already normalised text
\* changes nothing, for every text of letters, whitespace, allowed
\* punctuation and disallowed symbols in any order.
C20_NormaliseIsIdempotent ==
    entry = "normalise" => normalise(ret.value) = ret.value

\* C14: within one session each external lookup (RxNorm id, DailyMed
\* label) of a drug name is made at most once: what was fetched at upload
\* serves every later question of the session.
C14_LookupsOncePerSession ==
    \A s \in DOMAIN lookups : \A n \in SessionNames :
        lookups[s][n].rxnorm <= 1 /\ lookups[s][n].dailymed <= 1

\* C18: an ask_prescription request whose session_id is not in the store is
\* answered 404 with error "Invalid session_id"; neither the answer
\* generator nor the hallucination detector is invoked, and the store is
\* left as it was.
C18_UnknownSessionIs404 ==
    [][ (entry' = "ask_prescription"
            /\ args'.session_id \notin DOMAIN SESSION_STORE)
        => /\ ret'.status = 404
           /\ ret'.body = [error |-> "Invalid session_id"]
           /\ calls'.generate_api_answer = 0
           /\ calls'.detect_hallucinations = 0
           /\ calls'.llm = 0
           /\ SESSION_STORE' = SESSION_STORE ]_vars

\* a question about an unknown session was refused while the store held a
\* session
C18_Witness ==
    /\ entry = "ask_prescription"
    /\ args.session_id \notin DOMAIN SESSION_STORE
    /\ SESSION_STORE # <<>>
    /\ ret.status = 404

\* the medications of a parsed prescription
MedicationsOf(prescription_json) ==
    IF prescription_json.medications.none THEN <<>>
    ELSE prescription_json.medications.items

\* something raised while the upload was served: saving the file, OCR,
\* parsing, or a lookup of the confidence scoring (the interaction checker
\* catches what its own collaborators raise)
UploadRaised ==
    \/ ~args.written
    \/ env.ocr.raised
    \/ env.parsed.raised
    \/ \E i \in 1..Len(MedicationsOf(env.parsed.value)) :
          LET name == MedicationsOf(env.parsed.value)[i].name
          IN  \/ fetch_rxnorm_id(name, env.world.rxnorm[name]).raised
              \/ fetch_dailymed_summary(name, env.world.dailymed[name]).raised

\* a session entry holds its prescription, an interaction report, a
\* confidence report and one grounding record per medication
EntryComplete(e) ==
    /\ e.interactions # None
    /\ e.confidence # None
    /\ e.interactions.disclaimer # ""
    /\ Len(e.confidence.medication_scores) = Len(MedicationsOf(e.prescription))
    /\ Len(e.api_results) = Len(MedicationsOf(e.prescription))
    /\ \A i \in 1..Len(e.api_results) :
          e.api_results[i].drug = MedicationsOf(e.prescription)[i].name

\* C19: if OCR, parsing, confidence scoring or interaction checking raises
\* during upload_prescription, the request is answered 500 with an error
\* message and no session entry is created; every entry of the store holds
\* the prescription, its interaction report, its confidence report and its
\* grounding records together.
C19_FailedUploadCreatesNoSession ==
    [][ /\ (entry' = "upload_prescription" /\ UploadRaised')
            => /\ ret'.status = 500
               /\ ret'.body.error # ""
               /\ SESSION_STORE' = SESSION_STORE
        /\ \A s \in DOMAIN SESSION_STORE' : EntryComplete(SESSION_STORE'[s])
      ]_vars

\* an upload failed in the confidence scoring while the store held a
\* session
C19_Witness ==
    /\ entry = "upload_prescription"
    /\ ~env.parsed.raised
    /\ UploadRaised
    /\ ret.status = 500
    /\ SESSION_STORE # <<>>

\* the edit distance by its defining recursion: drop a character of
\* either string at cost 1, or match the two heads at the cost of a
\* substitution
RECURSIVE EditDistance(_, _)
EditDistance(a, b) ==
    IF a = <<>> THEN Len(b)
    ELSE IF b = <<>> THEN Len(a)
    ELSE Min(Min(EditDistance(Tail(a), b) + 1, EditDistance(a, Tail(b)) + 1),
             EditDistance(Tail(a), Tail(b)) + (IF Head(a) = Head(b) THEN 0 ELSE 1))

\* C21: _levenshtein(s, s) = 0 and _levenshtein(a, b) = _levenshtein(b, a)
\* for all strings, and the same for _word_level_levenshtein on token lists.
C21_DistanceIsZeroOnEqualAndSymmetric ==
    /\ entry = "_levenshtein" =>
          /\ ret.value = _levenshtein(args.b, args.a)
          /\ _levenshtein(args.a, args.a) = 0
    /\ entry = "_word_level_levenshtein" =>
          /\ ret.value = _word_level_levenshtein(args.b, args.a)
          /\ _word_level_levenshtein(args.a, args.a) = 0

\* two strings of different lengths at distance 2 from each other
C21_Witness ==
    /\ entry = "_levenshtein"
    /\ Len(args.a) < Len(args.b)
    /\ args.a # <<>>
    /\ ret.value = 2

\* both distances are the edit distance
DistancesAreEditDistance ==
    entry \in {"_levenshtein", "_word_level_levenshtein"} =>
        ret.value = EditDistance(args.a, args.b)

\* the leaf values of the two prescriptions passed to compute_parsing_f1
PredLeaves == _extract_field_set(args.predicted)

TruthLeaves == _extract_field_set(args.ground_truth)

MatchedLeaves == PredLeaves \cap TruthLeaves

\* v, in thousandths, is n / d rounded to three decimal places
IsRounded(v, n, d) ==
    2 * (v * d - 1000 * n) <= d /\ 2 * (1000 * n - v * d) <= d

\* the cases of C22 that do not depend on how a ratio is written: the
\* flattening, the zero guards, and the three named outcomes
ParsingF1Cases ==
    /\ (args.predicted =
           JDict(<<Field("diagnosis", JStr(<<" ", "M", "B", "C">>)),
                   Field("medications",
                         JList(<<Med(JStr(<<"a", "s", "a", " ">>),
                                     JStr(<<"5", "m", "g">>))>>))>>))
          => PredLeaves = {<<"m", "b", "c">>, <<"a", "s", "a">>, <<"5", "m", "g">>}
    /\ (PredLeaves = {} /\ TruthLeaves # {}) =>
          (ret.value.precision = 0 /\ ret.value.f1 = 0)
    /\ (TruthLeaves = {} /\ PredLeaves # {}) =>
          (ret.value.recall = 0 /\ ret.value.f1 = 0)
    /\ (PredLeaves = {} /\ TruthLeaves = {}) =>
          (ret.value.precision = 1000 /\ ret.value.recall = 1000
             /\ ret.value.f1 = 1000)
    /\ (PredLeaves = TruthLeaves) =>
          (ret.value.precision = 1000 /\ ret.value.recall = 1000
             /\ ret.value.f1 = 1000)
    /\ (PredLeaves # {} /\ TruthLeaves # {} /\ MatchedLeaves = {}) =>
          (ret.value.precision = 0 /\ ret.value.recall = 0 /\ ret.value.f1 = 0)

\* C22 as stated: precision, recall and f1 are exactly |pred & truth| /
\* |pred|, |pred & truth| / |truth| and their harmonic mean, each 0 when its
\* denominator is 0; no leaves at all, or equal leaf sets, give 1.0
\* throughout and disjoint non-empty leaf sets 0.0 throughout.
C22_F1IsExactRatios ==
    entry = "compute_parsing_f1" =>
        /\ ParsingF1Cases
        /\ PredLeaves # {} =>
              ret.value.precision * Cardinality(PredLeaves)
                 = 1000 * Cardinality(MatchedLeaves)
        /\ TruthLeaves # {} =>
              ret.value.recall * Cardinality(TruthLeaves)
                 = 1000 * Cardinality(MatchedLeaves)
        /\ MatchedLeaves # {} =>
              ret.value.f1 * (Cardinality(PredLeaves) + Cardinality(TruthLeaves))
                 = 2000 * Cardinality(MatchedLeaves)

\* C22 amended: precision, recall and f1 are those ratios rounded to three
\* decimal places (f1 the harmonic mean of the unrounded precision and
\* recall, 2 |pred & truth| / (|pred| + |truth|)), each 0 when its
\* denominator is 0; no leaves at all, or equal leaf sets, give 1.0
\* throughout and disjoint non-empty leaf sets 0.0 throughout.
C22_F1IsRoundedRatios ==
    entry = "compute_parsing_f1" =>
        /\ ParsingF1Cases
        /\ PredLeaves # {} =>
              IsRounded(ret.value.precision, Cardinality(MatchedLeaves),
                        Cardinality(PredLeaves))
        /\ TruthLeaves # {} =>
              IsRounded(ret.value.recall, Cardinality(MatchedLeaves),
                        Cardinality(TruthLeaves))
        /\ MatchedLeaves # {} =>
              IsRounded(ret.value.f1, 2 * Cardinality(MatchedLeaves),
                        Cardinality(PredLeaves) + Cardinality(TruthLeaves))

\* one of three predicted leaves matched one of two true leaves:
\* precision 0.333, recall 0.5, f1 0.4
C22_Witness ==
    /\ entry = "compute_parsing_f1"
    /\ Cardinality(PredLeaves) = 3
    /\ Cardinality(TruthLeaves) = 2
    /\ Cardinality(MatchedLeaves) = 1
    /\ ret.value.precision = 333
    /\ ret.value.recall = 500
    /\ ret.value.f1 = 400

\* the two texts passed to _fuzzy_match, normalised
NormCandidate == normalise(args.candidate)

NormReference == normalise(args.reference)

\* the longer of the two normalised lengths, at least 1
LongerLen ==
    IF Len(NormCandidate) >= Len(NormReference) /\ Len(NormCandidate) >= 1
    THEN Len(NormCandidate)
    ELSE IF Len(NormReference) >= 1 THEN Len(NormReference) ELSE 1

\* C23: _fuzzy_match(candidate, reference, threshold) is true exactly when
\* one normalised text is a substring of the other, or 1 - editDistance /
\* max(len, len, 1) >= threshold (0.6 by default); so "MBC" does not match
\* "metastatic breast cancer" while "denosumab" matches "denosumab 120 mg".
C23_FuzzyMatchRule ==
    entry = "_fuzzy_match" =>
        /\ ret.value =
              (\/ IsSubstring(NormCandidate, NormReference)
               \/ IsSubstring(NormReference, NormCandidate)
               \/ 10 * (LongerLen - EditDistance(NormCandidate, NormReference))
                     >= args.threshold * LongerLen)
        /\ (args.candidate = MBC /\ args.reference = MetastaticBreastCancer
               /\ args.threshold = DefaultThreshold) => ~ret.value
        /\ (args.candidate = Denosumab /\ args.reference = Denosumab120mg
               /\ args.threshold = DefaultThreshold) => ret.value

\* two texts, neither inside the other, matched at the default threshold
\* with a similarity of exactly 0.6
C23_Witness ==
    /\ entry = "_fuzzy_match"
    /\ args.threshold = DefaultThreshold
    /\ ~IsSubstring(NormCandidate, NormReference)
    /\ ~IsSubstring(NormReference, NormCandidate)
    /\ 10 * (LongerLen - EditDistance(NormCandidate, NormReference)) = 6 * LongerLen
    /\ ret.value

\* C24: with n >= 2 named medications, whenever the LLM's output is
\* anything but a JSON object (text that does not parse, or valid JSON that
\* is a list or a string), check_interactions reports a parse failure: no
\* interactions, total_checked = C(n,2), and an error that is not the one
\* of an unexpected failure.
C24_NonObjectIsParseFailure ==
    ( /\ entry = "check_interactions"
      /\ NamedCount >= 2
      /\ ~env.llm.raised
      /\ ~LlmGaveObject ) =>
        /\ ret.report.interactions = <<>>
        /\ 2 * ret.report.total_checked = NamedCount * (NamedCount - 1)
        /\ "error" \in DOMAIN ret.report
        /\ ret.report.error # UnexpectedErrorReport(<<>>).error

\* the positions of the JSON documents in the LLM's text
JsonPositions == {i \in 1..Len(env.llm.content) : env.llm.content[i].t = "json"}

\* the one JSON document of the LLM's text
WrappedBody == env.llm.content[CHOOSE i \in JsonPositions : TRUE]

\* the LLM's text is one JSON object with a code fence before it, after it
\* or both, and nothing else but a language tag and white space
LlmGaveFencedObject ==
    /\ ~env.llm.raised
    /\ Cardinality(JsonPositions) = 1
    /\ WrappedBody.doc.kind = "object"
    /\ \E i \in 1..Len(env.llm.content) : env.llm.content[i].t = "fence"
    /\ \A i \in 1..Len(env.llm.content) :
          env.llm.content[i].t \in {"json", "fence", "lang", "nl", "sp"}

\* what the same call returns when the LLM answers the bare JSON object
BareReport ==
    IF entry = "check_interactions"
    THEN check_interactions(args.medications, env.drug_classes, env.openfda,
                            LlmReturns(Bare(WrappedBody))).report
    ELSE detect_hallucinations(args.answer, args.prescription, args.api_data,
                               LlmReturns(Bare(WrappedBody))).report

\* C25: for an LLM output that is a valid JSON object behind a leading
\* and/or trailing code fence (with or without a language tag, on its own
\* line or on the line of the JSON), check_interactions and
\* detect_hallucinations return the report they return for the bare object.
C25_FencedGivesTheBareReport ==
    ( /\ entry \in {"check_interactions", "detect_hallucinations"}
      /\ LlmGaveFencedObject ) =>
        ret.report = BareReport

\* the entries of the returned details that are marked grounded
DetailsMarkedGrounded ==
    Cardinality({i \in 1..Len(ret.value.details) : ret.value.details[i].grounded})

\* C29: for every list of grounding records,
\* evaluation.compute_grounding_coverage reports the coverage percent that
\* confidence_scorer._compute_grounding_coverage reports, and its
\* grounded_count is the number of entries of details marked grounded.
C29_SameCoverageAsScorer ==
    entry = "compute_grounding_coverage" =>
        /\ ret.value.coverage_percent = _compute_grounding_coverage(args.api_results)
        /\ ret.value.grounded_count = DetailsMarkedGrounded

\* grounded_count is the number of entries of details marked grounded, and
\* details has one entry per record
GroundedCountMatchesDetails ==
    entry = "compute_grounding_coverage" =>
        /\ ret.value.grounded_count = DetailsMarkedGrounded
        /\ Len(ret.value.details) = ret.value.total_count
        /\ ret.value.total_count = Len(args.api_results)

\* on records whose id is None or not empty the two functions agree
SameCoverageOnResolvedIds ==
    ( /\ entry = "compute_grounding_coverage"
      /\ \A i \in 1..Len(args.api_results) :
            args.api_results[i].rxnorm_id.none
            \/ args.api_results[i].rxnorm_id.id # "" ) =>
        ret.value.coverage_percent = _compute_grounding_coverage(args.api_results)

\* the request asked about a session the store holds
AskedExistingSession ==
    /\ entry = "ask_prescription"
    /\ args.session_id \in DOMAIN SESSION_STORE

\* the positions of the request's trace at which f was called
CallsOf(f) == {i \in 1..Len(calls.trace) : calls.trace[i] = Called(f)}

\* C26: in every ask_prescription request for an existing session the
\* hallucination detector is invoked at most once and only after the answer
\* generator has returned, and the answer of the response is exactly the
\* text the generator returned, whatever the detector's verdict, a failure
\* verdict included.
C26_DetectorAfterAnswerAndAnswerKept ==
    AskedExistingSession =>
        /\ Cardinality(CallsOf("detect_hallucinations")) <= 1
        /\ calls.detect_hallucinations = Cardinality(CallsOf("detect_hallucinations"))
        /\ \A i \in CallsOf("detect_hallucinations") :
              \E j \in 1..(i - 1) :
                  calls.trace[j] = Returned("generate_api_answer")
        /\ ret.status = 200 =>
              /\ ~env.answer_llm.raised
              /\ ret.body.answer = env.answer_llm.content

\* C26 witness: the detector's LLM call failed, the verdict is the failure
\* sentinel, and the generator's text is in the response.
C26_Witness ==
    /\ AskedExistingSession
    /\ ret.status = 200
    /\ env.detect_llm.raised
    /\ ret.body.hallucination_check.hallucination_count = -1
    /\ CallsOf("detect_hallucinations") = {3}
    /\ ~ret.body.answer.none
    /\ ret.body.answer = env.answer_llm.content

\* C27: a session entry is written once, by the upload that creates it: no
\* ask_prescription request adds, changes or removes an entry of the
\* store, an upload leaves every existing entry as it is and adds at most
\* the entry of a new id, holding the confidence it returns, and a
\* successful ask on session s returns the confidence stored for s.
C27_SessionWrittenOnce ==
    [][ /\ \A s \in DOMAIN SESSION_STORE :
              s \in DOMAIN SESSION_STORE' /\ SESSION_STORE'[s] = SESSION_STORE[s]
        /\ entry' = "ask_prescription" =>
              /\ SESSION_STORE' = SESSION_STORE
              /\ ret'.status = 200 =>
                    ret'.body.confidence = SESSION_STORE[args'.session_id].confidence
        /\ (entry' = "upload_prescription" /\ ret'.status = 200) =>
              /\ ret'.body.session_id \notin DOMAIN SESSION_STORE
              /\ DOMAIN SESSION_STORE' = DOMAIN SESSION_STORE \cup {ret'.body.session_id}
              /\ SESSION_STORE'[ret'.body.session_id].confidence = ret'.body.confidence
      ]_vars

\* C27 witness: two sessions were created by uploads that scored them
\* differently, and a question on the first is answered with the first's
\* confidence.
C27_Witness ==
    /\ entry = "ask_prescription"
    /\ ret.status = 200
    /\ args.session_id = 1
    /\ DOMAIN SESSION_STORE = {1, 2}
    /\ SESSION_STORE[1].confidence # SESSION_STORE[2].confidence
    /\ ret.body.confidence = SESSION_STORE[1].confidence

\* no lookup made while the request is served fails
AskLookupsSucceed ==
    \A n \in SessionNames :
        /\ ~fetch_rxnorm_id(n, env.world.rxnorm[n]).raised
        /\ ~fetch_dailymed_summary(n, env.world.dailymed[n]).raised

\* C30: for every session created by a successful upload, one whose
\* prescription has medications null or empty included, a question during
\* which the lookups and both LLM calls succeed is answered with status 200
\* and an answer, a hallucination_check and the stored confidence.
C30_AskOnStoredSessionIs200 ==
    ( /\ AskedExistingSession
      /\ AskLookupsSucceed
      /\ ~env.answer_llm.raised
      /\ ~env.detect_llm.raised ) =>
        /\ ret.status = 200
        /\ DOMAIN ret.body = {"answer", "hallucination_check", "confidence"}
        /\ ret.body.confidence = SESSION_STORE[args.session_id].confidence

\* the claim of C30 holds for the sessions whose prescription has a
\* medication list, empty or not
AskOnListedMedicationsIs200 ==
    ( /\ AskedExistingSession
      /\ ~SESSION_STORE[args.session_id].prescription.medications.none
      /\ AskLookupsSucceed
      /\ ~env.answer_llm.raised
      /\ ~env.detect_llm.raised ) =>
        /\ ret.status = 200
        /\ DOMAIN ret.body = {"answer", "hallucination_check", "confidence"}
        /\ ret.body.confidence = SESSION_STORE[args.session_id].confidence

-----------------------------------------------------------------------------
(* A request waiting for its lookups: medical_api.py's requests.get calls, *)
(* one after another, each against a service that answers, refuses the     *)
(* connection or stays silent.                                             *)

\* the timeout handed to requests.get: none in fetch_rxnorm_id (line 10)
\* and fetch_dailymed_summary (line 29), ten seconds in fetch_drug_classes
\* (line 64) and fetch_openfda_interactions (line 101)
TimeoutOf(lookup) ==
    IF lookup \in {"fetch_drug_classes", "fetch_openfda_interactions"}
    THEN [none |-> FALSE, seconds |-> 10]
    ELSE [none |-> TRUE, seconds |-> 0]

\* what a service does with a request: it answers, it refuses the
\* connection, or it accepts the connection and never sends anything
ServiceBehaviours == {"answers", "refuses", "silent"}

ServiceWorlds == [LookupNames -> ServiceBehaviours]

\* the lookups of _score_medications and of generate_api_answer, in order:
\* for each medication the RxNorm id, then the DailyMed label
GroundingLookups(medications) ==
    [i \in 1..(2 * Len(medications)) |->
        [lookup |-> IF i % 2 = 1 THEN "fetch_rxnorm_id"
                    ELSE "fetch_dailymed_summary",
         drug_name |-> medications[(i + 1) \div 2].name]]

\* the lookups of check_interactions, in order: the classes of every name,
\* then the OpenFDA signals of every name; none for fewer than two names
InteractionLookups(medications) ==
    IF Len(medications) < 2 THEN <<>>
    ELSE [i \in 1..Len(medications) |->
             [lookup |-> "fetch_drug_classes", drug_name |-> medications[i].name]]
         \o [i \in 1..Len(medications) |->
             [lookup |-> "fetch_openfda_interactions",
              drug_name |-> medications[i].name]]

\* the lookups a request makes before it answers
LookupPlan(route, medications) ==
    IF route = "upload_prescription"
    THEN GroundingLookups(medications) \o InteractionLookups(medications)
    ELSE GroundingLookups(medications)

\* the lookup the waiting request is in
CurrentLookup == LookupPlan(args.route, args.medications)[ret.returned + 1]

Waiting == entry = "request" /\ ret.pending

InLookup ==
    /\ Waiting
    /\ ret.returned < Len(LookupPlan(args.route, args.medications))

\* the field of calls that counts a lookup
CallField(lookup) ==
    CASE lookup = "fetch_rxnorm_id" -> "rxnorm"
      [] lookup = "fetch_dailymed_summary" -> "dailymed"
      [] lookup = "fetch_drug_classes" -> "drug_classes"
      [] OTHER -> "openfda"

\* a refused connection raises out of the lookups that have no try/except
\* and is answered with [] by the two that have one
LookupRaises(lookup, service) ==
    /\ service = "refuses"
    /\ lookup \in {"fetch_rxnorm_id", "fetch_dailymed_summary"}

\* a request arrives and starts on its lookups
StartRequest ==
    /\ entry = "none"
    /\ \E route \in {"upload_prescription", "ask_prescription"},
          k \in 1..2, service \in ServiceWorlds :
          /\ entry' = "request"
          /\ args' = [route |-> route, medications |-> RosterMeds(k)]
          /\ env' = [service |-> service]
          /\ ret' = [raised |-> FALSE, pending |-> TRUE, returned |-> 0,
                     status |-> 0]
          /\ calls' = NoCalls
          /\ UNCHANGED routeVars

\* the service of the current lookup answers or refuses: the lookup returns,
\* or raises and the route answers 500
Respond ==
    /\ InLookup
    /\ env.service[CurrentLookup.lookup] # "silent"
    /\ ret' = IF LookupRaises(CurrentLookup.lookup,
                              env.service[CurrentLookup.lookup])
              THEN [ret EXCEPT !.pending = FALSE, !.status = 500]
              ELSE [ret EXCEPT !.returned = @ + 1]
    /\ calls' = [calls EXCEPT ![CallField(CurrentLookup.lookup)] = @ + 1]
    /\ UNCHANGED <<entry, args, env, routeVars>>

\* the service of the current lookup stays silent and the lookup's timeout
\* expires: requests raises Timeout, the lookup's except returns []
TimeOut ==
    /\ InLookup
    /\ env.service[CurrentLookup.lookup] = "silent"
    /\ ~TimeoutOf(CurrentLookup.lookup).none
    /\ ret' = [ret EXCEPT !.returned = @ + 1]
    /\ calls' = [calls EXCEPT ![CallField(CurrentLookup.lookup)] = @ + 1]
    /\ UNCHANGED <<entry, args, env, routeVars>>

\* every lookup has returned: the route answers
Complete ==
    /\ Waiting
    /\ ret.returned = Len(LookupPlan(args.route, args.medications))
    /\ ret' = [ret EXCEPT !.pending = FALSE, !.status = 200]
    /\ UNCHANGED <<entry, args, env, calls, routeVars>>

NextWaits ==
    \/ StartRequest
    \/ Respond
    \/ TimeOut
    \/ Complete

\* a service that is not silent does respond, an armed timeout does expire,
\* and a route whose lookups have returned does answer
SpecWaits ==
    /\ Init
    /\ [][NextWaits]_vars
    /\ WF_vars(Respond)
    /\ WF_vars(TimeOut)
    /\ WF_vars(Complete)

\* C28: every reference-API lookup made during an upload or a question
\* carries its own timeout, so a service that never responds degrades to
\* "not found" and the enclosing request eventually completes.
C28_RequestEventuallyCompletes ==
    Waiting ~> (entry = "request" /\ ~ret.pending)

\* the services of the two lookups made without a timeout do respond
GroundingServicesRespond ==
    /\ env.service["fetch_rxnorm_id"] # "silent"
    /\ env.service["fetch_dailymed_summary"] # "silent"

\* a request completes whenever RxNorm and DailyMed respond: silence of
\* the RxClass and OpenFDA services is cut short by their timeouts
CompletesWhenGroundingServicesRespond ==
    (Waiting /\ GroundingServicesRespond) ~> (entry = "request" /\ ~ret.pending)

=============================================================================
